---- MODULE Spec2Model ----
(***************************************************************************)
(* Model of the swift-coder MCP server: the repository registry            *)
(* (RepoManager), the address parser / validator / resolver of             *)
(* utils/path-handler.ts, the file tools that consume them, the module     *)
(* detection of ModuleManager and the start-up sequence of main().         *)
(*                                                                         *)
(* Six specifications share the variables:                                 *)
(*   Spec             the path functions and the tools, while serving      *)
(*   SpecRepoManager  the RepoManager methods and the working directory    *)
(*   SpecMain         main(): detection, tool registration, serving        *)
(*   SpecDetect       one detection over every repository layout           *)
(*   SpecModules      registerModule and getModuleByName                   *)
(*   SpecLanguage     detectLanguage over every list of files              *)
(*                                                                         *)
(* Strings are sequences of one-character strings, so that startsWith,     *)
(* includes, split, join and template concatenation are computed the way   *)
(* the JavaScript does.  A fixed piece of message text is one element.     *)
(***************************************************************************)
EXTENDS Integers, Sequences, FiniteSets, TLC

VARIABLES
  repositories,    \* RepoManager.repositories: id -> RepoConfig
  _defaultRepoId,  \* RepoManager._defaultRepoId
  cwd,             \* process.cwd(); absent while the directory no longer exists
  modulesByRepo,   \* ModuleManager.modulesByRepo: repoId -> (module id -> ModuleInfo)
  scanQueue,       \* autoDetectAllModules: the repositories its loop has yet to take
  scanning,        \* autoDetectAllModules: the repository whose detection is awaited
  lastScan,        \* the repository and the module list of the latest finished detection
  pc,              \* main(): the step it is at
  tools,           \* the tools registered with the MCP server
  last             \* the call being served and what it returned

registryVars == <<repositories, _defaultRepoId>>
processVars == <<cwd>>
moduleVars == <<modulesByRepo, scanQueue, scanning, lastScan>>
mainVars == <<pc, tools>>

vars == <<repositories, _defaultRepoId, cwd, modulesByRepo, scanQueue, scanning,
          lastScan, pc, tools, last>>

----------------------------------------------------------------------------
(* Bounds and input sets *)

\* an address is a concatenation of at most MaxPieces pieces
MaxPieces == 4

Pieces == {<<"/">>, <<"a">>, <<"b">>, <<":", "/", "/">>}

RECURSIVE StringsUpTo(_)
StringsUpTo(n) ==
  IF n = 0 THEN {<< >>}
  ELSE LET shorter == StringsUpTo(n - 1)
       IN  shorter \cup {s \o p : s \in shorter, p \in Pieces}

Addresses == StringsUpTo(MaxPieces)

\* the addresses the tools are called with are made of at most MaxToolPieces pieces
MaxToolPieces == 3

ToolAddresses == StringsUpTo(MaxToolPieces)

\* references {repoId, relativePath}: the repoId is a segment (a string
\* without "/"), the relativePath is made of at most MaxRelPieces pieces
RefRepoIds == {<< >>, <<"a">>, <<"b">>, <<"a", "b">>, <<":">>}

MaxRelPieces == 2

References ==
  [repoId : RefRepoIds, relativePath : StringsUpTo(MaxRelPieces)]

----------------------------------------------------------------------------
(* JavaScript string primitives *)

StartsWith(s, p) == Len(s) >= Len(p) /\ SubSeq(s, 1, Len(p)) = p

\* 1-based index of the first occurrence of sub in s, 0 when there is none
RECURSIVE IndexFrom(_, _, _)
IndexFrom(s, sub, i) ==
  IF i + Len(sub) - 1 > Len(s) THEN 0
  ELSE IF SubSeq(s, i, i + Len(sub) - 1) = sub THEN i
  ELSE IndexFrom(s, sub, i + 1)

IndexOf(s, sub) == IndexFrom(s, sub, 1)

Includes(s, sub) == IndexOf(s, sub) # 0

\* s.substring(1)
Substring1(s) == SubSeq(s, 2, Len(s))

\* s.split(sep): every occurrence of sep, left to right, separates two parts
RECURSIVE Split(_, _)
Split(s, sep) ==
  LET i == IndexOf(s, sep)
  IN  IF i = 0 THEN <<s>>
      ELSE <<SubSeq(s, 1, i - 1)>> \o Split(SubSeq(s, i + Len(sep), Len(s)), sep)

\* the parts concatenated without the separator
RECURSIVE Join_NoSeparator(_, _)
Join_NoSeparator(parts, sep) ==
  IF Len(parts) = 0 THEN << >>
  ELSE parts[1] \o Join_NoSeparator(Tail(parts), sep)

\* parts.join(sep)
RECURSIVE Join(_, _)
Join(parts, sep) ==
  IF Len(parts) = 0 THEN << >>
  ELSE IF Len(parts) = 1 THEN parts[1]
  ELSE parts[1] \o sep \o Join(Tail(parts), sep)

\* parts.slice(1)
Slice1(parts) == SubSeq(parts, 2, Len(parts))

Slash == <<"/">>
SchemeSep == <<":", "/", "/">>
UnknownId == <<"u", "n", "k", "n", "o", "w", "n">>
SwiftCoderId == <<"s", "w", "i", "f", "t", "-", "c", "o", "d", "e", "r">>

----------------------------------------------------------------------------
(* RepoManager: the repository registry *)

\* a value that may be absent (null / undefined) is a sequence of length <= 1
Undefined == << >>
Some(v) == <<v>>

\* Map.prototype.get
MapGet(m, k) == IF k \in DOMAIN m THEN Some(m[k]) ELSE Undefined

\* Map.prototype.set
MapSet(m, k, v) == [x \in (DOMAIN m) \cup {k} |-> IF x = k THEN v ELSE m[x]]

\* JavaScript truthiness of a string that may be null: null and "" are falsy
Truthy(opt) == opt # Undefined /\ opt[1] # << >>

\* directories that exist on the filesystem
ExistingPaths == {<<"/", "r">>, <<"/", "s">>, <<"/", "w">>, <<"/", "a">>, <<"/", "B">>}

existsSync(p) == p \in ExistingPaths

\* path.isAbsolute (posix)
isAbsolute(p) == StartsWith(p, Slash)

\* path.resolve(this._rootDir, p) with _rootDir = "/", for a relative p that
\* is a plain name (no ".", ".." or repeated separators)
resolveAgainstRoot(p) == Slash \o p

\* the path is stored as given
addRepository_PathAsGiven(st, config) ==
  [repositories   |-> MapSet(st.repositories, config.id, config),
   _defaultRepoId |-> IF ~Truthy(st._defaultRepoId) THEN Some(config.id)
                      ELSE st._defaultRepoId]

\* a registered id keeps its first configuration
addRepository_KeepFirst(st, config) ==
  LET stored == [config EXCEPT !.path =
                   IF isAbsolute(config.path) THEN config.path
                   ELSE resolveAgainstRoot(config.path)]
  IN  [repositories   |-> IF config.id \in DOMAIN st.repositories THEN st.repositories
                          ELSE MapSet(st.repositories, config.id, stored),
       _defaultRepoId |-> IF ~Truthy(st._defaultRepoId) THEN Some(config.id)
                          ELSE st._defaultRepoId]

\* the default is left to the callers: addRepository never sets it
addRepository_NoDefault(st, config) ==
  LET stored == [config EXCEPT !.path =
                   IF isAbsolute(config.path) THEN config.path
                   ELSE resolveAgainstRoot(config.path)]
  IN  [repositories   |-> MapSet(st.repositories, config.id, stored),
       _defaultRepoId |-> st._defaultRepoId]

\* RepoManager.addRepository, as a function of the registry state
addRepository(st, config) ==
  LET stored == [config EXCEPT !.path =
                   IF isAbsolute(config.path) THEN config.path
                   ELSE resolveAgainstRoot(config.path)]
  IN  [repositories   |-> MapSet(st.repositories, config.id, stored),
       _defaultRepoId |-> IF ~Truthy(st._defaultRepoId) THEN Some(config.id)
                          ELSE st._defaultRepoId]

\* String.prototype.toLowerCase on the letters environment keys are made of
LowerChar(c) == IF c = "A" THEN "a" ELSE IF c = "B" THEN "b" ELSE c
toLowerCase(s) == [i \in 1..Len(s) |-> LowerChar(s[i])]

\* one step of the forEach over Object.keys(process.env)
loadEntry(st, entry) ==
  IF entry.key.prefix = "REPO_PATH_"
  THEN LET repoId == toLowerCase(entry.key.suffix)
           repoPath == entry.value
       IN  IF repoPath # << >> /\ existsSync(repoPath)
           THEN LET added == addRepository(st, [id |-> repoId, path |-> repoPath])
                IN  IF ~Truthy(added._defaultRepoId)
                    THEN [added EXCEPT !._defaultRepoId = Some(repoId)]
                    ELSE added
           ELSE st
  ELSE st

RECURSIVE loadEntries(_, _)
loadEntries(st, env) ==
  IF env = << >> THEN st ELSE loadEntries(loadEntry(st, Head(env)), Tail(env))

\* process.env.SWIFT_CODER_REPO_PATH
swiftCoderPath(env) ==
  LET hits == {i \in 1..Len(env) : env[i].key.prefix = "SWIFT_CODER_REPO_PATH"}
  IN  IF hits = {} THEN Undefined ELSE Some(env[CHOOSE i \in hits : TRUE].value)

\* the legacy repository is registered without being made the default
loadFromEnvironment_NoOverride(env) ==
  LET empty == [repositories |-> << >>, _defaultRepoId |-> Undefined]
      scanned == loadEntries(empty, env)
      legacy == swiftCoderPath(env)
  IN  IF Truthy(legacy) /\ existsSync(legacy[1])
      THEN addRepository(scanned, [id |-> SwiftCoderId, path |-> legacy[1]])
      ELSE scanned

\* RepoManager.loadFromEnvironment on an empty registry
loadFromEnvironment(env) ==
  LET empty == [repositories |-> << >>, _defaultRepoId |-> Undefined]
      scanned == loadEntries(empty, env)
      legacy == swiftCoderPath(env)
  IN  IF Truthy(legacy) /\ existsSync(legacy[1])
      THEN [addRepository(scanned, [id |-> SwiftCoderId, path |-> legacy[1]])
              EXCEPT !._defaultRepoId = Some(SwiftCoderId)]
      ELSE scanned

\* RepoManager.getRepository on a registry state; an omitted repoId is the
\* empty string (both are falsy)
getRepositoryIn(st, repoId) ==
  IF repoId = << >> /\ Truthy(st._defaultRepoId)
  THEN MapGet(st.repositories, st._defaultRepoId[1])
  ELSE IF repoId # << >> THEN MapGet(st.repositories, repoId) ELSE Undefined

\* the singleton repoManager
repoManager == [repositories |-> repositories, _defaultRepoId |-> _defaultRepoId]

getRepository(repoId) == getRepositoryIn(repoManager, repoId)

\* RepoManager.defaultRepoId (getter)
defaultRepoId == IF Truthy(_defaultRepoId) THEN _defaultRepoId[1] ELSE UnknownId

\* RepoManager.resetWorkingDirectory on the directory the process is in:
\* process.cwd() throws while that directory no longer exists, the catch
\* returns false and no chdir is made
resetWorkingDirectory(dir) ==
  IF dir = Undefined THEN [returned |-> FALSE, cwd |-> dir]
  ELSE IF dir[1] # Slash THEN [returned |-> TRUE, cwd |-> Some(Slash)]
  ELSE [returned |-> TRUE, cwd |-> dir]

\* RepoManager.setRepositoryAsWorkingDirectory; chdirOk is whether
\* process.chdir(repo.path) succeeds.  `from` is the directory the process
\* was in when process.chdir(repo.path) was made.
setRepositoryAsWorkingDirectory(st, dir, repoId, chdirOk) ==
  LET reset == resetWorkingDirectory(dir)
      repo == getRepositoryIn(st, repoId)
  IN  IF repo = Undefined
      THEN [returned |-> FALSE, switched |-> FALSE, from |-> reset.cwd, cwd |-> reset.cwd]
      ELSE IF ~chdirOk
      THEN [returned |-> FALSE, switched |-> FALSE, from |-> reset.cwd, cwd |-> reset.cwd]
      ELSE [returned |-> TRUE, switched |-> TRUE, from |-> reset.cwd,
            cwd |-> Some(repo[1].path)]

\* environments the server is started with: the keys in insertion order
EnvEntries ==
  { [key |-> [prefix |-> "REPO_PATH_", suffix |-> <<"A">>], value |-> <<"/", "r">>],
    [key |-> [prefix |-> "REPO_PATH_", suffix |-> <<"A">>], value |-> <<"/", "x">>],
    [key |-> [prefix |-> "REPO_PATH_", suffix |-> <<"B">>], value |-> <<"/", "s">>],
    [key |-> [prefix |-> "SWIFT_CODER_REPO_PATH", suffix |-> << >>], value |-> <<"/", "w">>],
    [key |-> [prefix |-> "SWIFT_CODER_REPO_PATH", suffix |-> << >>], value |-> <<"/", "x">>] }

MaxEnv == 3

Envs ==
  UNION { { e \in [1..n -> EnvEntries] :
              \A i, j \in 1..n : i # j => e[i].key # e[j].key } : n \in 0..MaxEnv }

----------------------------------------------------------------------------
(* utils/path-handler.ts *)

ABSOLUTE_PATH == "absolute_path"
REPOSITORY_PREFIXED == "repository_prefixed"
RELATIVE_PATH == "relative_path"
UNKNOWN == "unknown"

\* the prefix test made before the leading-slash test
getPathFormatType_PrefixFirst(path) ==
  IF path = << >> THEN UNKNOWN
  ELSE IF Includes(path, SchemeSep) THEN REPOSITORY_PREFIXED
  ELSE IF StartsWith(path, Slash) THEN ABSOLUTE_PATH
  ELSE RELATIVE_PATH

getPathFormatType(path) ==
  IF path = << >> THEN UNKNOWN
  ELSE IF StartsWith(path, Slash) THEN ABSOLUTE_PATH
  ELSE IF Includes(path, SchemeSep) THEN REPOSITORY_PREFIXED
  ELSE RELATIVE_PATH

\* outcome of a call that threw new Error(message)
Thrown(message) == [threw |-> TRUE, error |-> message]

\* element i of a JavaScript array, undefined past its end
At(parts, i) == IF i <= Len(parts) THEN Some(parts[i]) ELSE Undefined

\* the segment count tested against 1: a bare "/repoId" parses with an empty
\* relative path
parsePathFormat_BareRepoAllowed(path) ==
  LET formatType == getPathFormatType(path)
      Parsed(repoId, relativePath) ==
        [threw |-> FALSE, repoId |-> repoId, relativePath |-> relativePath,
         formatType |-> formatType]
  IN  CASE formatType = ABSOLUTE_PATH ->
             LET parts == Split(Substring1(path), Slash)
             IN  IF Len(parts) < 1
                 THEN Thrown(<<"Invalid absolute path format: ">> \o path)
                 ELSE Parsed(parts[1], Join(Slice1(parts), Slash))
        [] formatType = REPOSITORY_PREFIXED ->
             LET parts == Split(path, SchemeSep)
                 prefix == At(parts, 1)
                 rest == At(parts, 2)
             IN  IF ~Truthy(prefix) \/ ~Truthy(rest)
                 THEN Thrown(<<"Invalid repository prefixed path: ">> \o path)
                 ELSE Parsed(prefix[1], rest[1])
        [] formatType = RELATIVE_PATH -> Parsed(defaultRepoId, path)
        [] OTHER -> Thrown(<<"Unknown or invalid path format: ">> \o path)

parsePathFormat(path) ==
  LET formatType == getPathFormatType(path)
      Parsed(repoId, relativePath) ==
        [threw |-> FALSE, repoId |-> repoId, relativePath |-> relativePath,
         formatType |-> formatType]
  IN  CASE formatType = ABSOLUTE_PATH ->
             LET parts == Split(Substring1(path), Slash)
             IN  IF Len(parts) < 2
                 THEN Thrown(<<"Invalid absolute path format: ">> \o path)
                 ELSE Parsed(parts[1], Join(Slice1(parts), Slash))
        [] formatType = REPOSITORY_PREFIXED ->
             LET parts == Split(path, SchemeSep)
                 prefix == At(parts, 1)
                 rest == At(parts, 2)
             IN  IF ~Truthy(prefix) \/ ~Truthy(rest)
                 THEN Thrown(<<"Invalid repository prefixed path: ">> \o path)
                 ELSE Parsed(prefix[1], rest[1])
        [] formatType = RELATIVE_PATH -> Parsed(defaultRepoId, path)
        [] OTHER -> Thrown(<<"Unknown or invalid path format: ">> \o path)

AbsolutePathRequired ==
  <<"ABSOLUTE PATH REQUIRED: All tools now require absolute paths in the format: /repoId/path/to/file">>
ConvertYourPathTo == <<"Convert your path to: ">>
InvalidAbsolutePath ==
  <<"INVALID ABSOLUTE PATH: Path must follow pattern: /repoId/path/to/file">>

\* `${x}` of a value that may be undefined
Interpolate(opt) == IF opt = Undefined THEN <<"undefined">> ELSE opt[1]

\* the earlier policy: a prefixed address of a registered repository is accepted
validatePathForTool_AcceptPrefixed(path, toolName) ==
  LET formatType == getPathFormatType(path)
      Invalid(message) == [threw |-> FALSE, isValid |-> FALSE, errorMessage |-> Some(message)]
      parts == IF formatType = ABSOLUTE_PATH THEN Split(Substring1(path), Slash)
               ELSE Split(path, SchemeSep)
  IN  IF formatType \notin {ABSOLUTE_PATH, REPOSITORY_PREFIXED}
      THEN Invalid(AbsolutePathRequired \o ConvertYourPathTo
                     \o Slash \o defaultRepoId \o Slash \o path)
      ELSE IF Len(parts) < 2 \/ parts[1] = << >>
      THEN Invalid(InvalidAbsolutePath)
      ELSE IF getRepository(parts[1]) = Undefined
      THEN Invalid(<<"INVALID REPOSITORY ID: '">> \o parts[1]
                     \o <<"' not found in registered repositories.">>)
      ELSE [threw |-> FALSE, isValid |-> TRUE, errorMessage |-> Undefined]

\* the registry lookup left out: every well-formed absolute address is accepted
validatePathForTool_NoRegistryCheck(path, toolName) ==
  LET formatType == getPathFormatType(path)
      Invalid(message) == [threw |-> FALSE, isValid |-> FALSE, errorMessage |-> Some(message)]
  IN  IF formatType # ABSOLUTE_PATH
      THEN LET examplePath ==
                 IF formatType = REPOSITORY_PREFIXED
                 THEN LET parts == Split(path, SchemeSep)
                      IN  Slash \o Interpolate(At(parts, 1)) \o Slash \o Interpolate(At(parts, 2))
                 ELSE Slash \o defaultRepoId \o Slash \o path
           IN  Invalid(AbsolutePathRequired \o ConvertYourPathTo \o examplePath)
      ELSE LET parts == Split(Substring1(path), Slash)
           IN  IF Len(parts) < 2 \/ parts[1] = << >>
               THEN Invalid(InvalidAbsolutePath)
               ELSE [threw |-> FALSE, isValid |-> TRUE, errorMessage |-> Undefined]

\* the absolute branch delegated to parsePathFormat, whose format error escapes
validatePathForTool_ThrowsOnMalformed(path, toolName) ==
  LET formatType == getPathFormatType(path)
      Invalid(message) == [threw |-> FALSE, isValid |-> FALSE, errorMessage |-> Some(message)]
  IN  IF formatType # ABSOLUTE_PATH
      THEN LET examplePath ==
                 IF formatType = REPOSITORY_PREFIXED
                 THEN LET parts == Split(path, SchemeSep)
                      IN  Slash \o Interpolate(At(parts, 1)) \o Slash \o Interpolate(At(parts, 2))
                 ELSE Slash \o defaultRepoId \o Slash \o path
           IN  Invalid(AbsolutePathRequired \o ConvertYourPathTo \o examplePath)
      ELSE LET parsed == parsePathFormat(path)
           IN  IF parsed.threw THEN parsed
               ELSE IF getRepository(parsed.repoId) = Undefined
               THEN Invalid(<<"INVALID REPOSITORY ID: '">> \o parsed.repoId
                              \o <<"' not found in registered repositories.">>)
               ELSE [threw |-> FALSE, isValid |-> TRUE, errorMessage |-> Undefined]

\* the segment count is not tested: a bare "/repoId" of a registered
\* repository is accepted
validatePathForTool_BareRepoValid(path, toolName) ==
  LET formatType == getPathFormatType(path)
      Invalid(message) == [threw |-> FALSE, isValid |-> FALSE, errorMessage |-> Some(message)]
  IN  IF formatType # ABSOLUTE_PATH
      THEN LET examplePath ==
                 IF formatType = REPOSITORY_PREFIXED
                 THEN LET parts == Split(path, SchemeSep)
                      IN  Slash \o Interpolate(At(parts, 1)) \o Slash \o Interpolate(At(parts, 2))
                 ELSE Slash \o defaultRepoId \o Slash \o path
           IN  Invalid(AbsolutePathRequired \o ConvertYourPathTo \o examplePath)
      ELSE LET parts == Split(Substring1(path), Slash)
           IN  IF Len(parts) < 1 \/ parts[1] = << >>
               THEN Invalid(InvalidAbsolutePath)
               ELSE LET repoId == parts[1]
                    IN  IF getRepository(repoId) = Undefined
                        THEN Invalid(<<"INVALID REPOSITORY ID: '">> \o repoId
                                       \o <<"' not found in registered repositories.">>)
                        ELSE [threw |-> FALSE, isValid |-> TRUE, errorMessage |-> Undefined]

validatePathForTool(path, toolName) ==
  LET formatType == getPathFormatType(path)
      Invalid(message) == [threw |-> FALSE, isValid |-> FALSE, errorMessage |-> Some(message)]
  IN  IF formatType # ABSOLUTE_PATH
      THEN LET examplePath ==
                 IF formatType = REPOSITORY_PREFIXED
                 THEN LET parts == Split(path, SchemeSep)
                      IN  Slash \o Interpolate(At(parts, 1)) \o Slash \o Interpolate(At(parts, 2))
                 ELSE Slash \o defaultRepoId \o Slash \o path
           IN  Invalid(AbsolutePathRequired \o ConvertYourPathTo \o examplePath)
      ELSE LET parts == Split(Substring1(path), Slash)
           IN  IF Len(parts) < 2 \/ parts[1] = << >>
               THEN Invalid(InvalidAbsolutePath)
               ELSE LET repoId == parts[1]
                    IN  IF getRepository(repoId) = Undefined
                        THEN Invalid(<<"INVALID REPOSITORY ID: '">> \o repoId
                                       \o <<"' not found in registered repositories.">>)
                        ELSE [threw |-> FALSE, isValid |-> TRUE, errorMessage |-> Undefined]

\* formatPathForTool applied to a string
formatPathForTool(path, toolName) ==
  LET parsedPath == parsePathFormat(path)
  IN  IF parsedPath.threw THEN parsedPath
      ELSE [threw |-> FALSE,
            value |-> Slash \o parsedPath.repoId \o Slash \o parsedPath.relativePath]

\* formatPathForTool applied to an object {repoId, relativePath}
formatPathObjectForTool(ref, toolName) ==
  [threw |-> FALSE, value |-> Slash \o ref.repoId \o Slash \o ref.relativePath]

\* the repository looked up without the parsed id: always the default one
resolveToAbsolutePath_DefaultRepo(path) ==
  LET parsed == parsePathFormat(path)
  IN  IF parsed.threw THEN parsed
      ELSE LET repo == getRepository(<< >>)
           IN  IF repo = Undefined
               THEN Thrown(<<"Repository not found: ">> \o parsed.repoId)
               ELSE [threw |-> FALSE, value |-> repo[1].path \o Slash \o parsed.relativePath]

resolveToAbsolutePath(path) ==
  LET parsed == parsePathFormat(path)
  IN  IF parsed.threw THEN parsed
      ELSE LET repo == getRepository(parsed.repoId)
           IN  IF repo = Undefined
               THEN Thrown(<<"Repository not found: ">> \o parsed.repoId)
               ELSE [threw |-> FALSE, value |-> repo[1].path \o Slash \o parsed.relativePath]

----------------------------------------------------------------------------
(* tools: the handlers that take an address *)

Dot == <<".">>

\* what a handler did: whether it called validatePathForTool and with what
\* result, whether it called resolveToAbsolutePath and what that returned,
\* and the filesystem calls it made on the resolved path, in order
ToolResult(isError, validation, resolveCalled, resolved, io) ==
  [isError |-> isError, validation |-> validation, resolveCalled |-> resolveCalled,
   resolved |-> resolved, io |-> io]

\* tools/readFile.ts; stat is what fs.stat answers for the resolved path
readFileImpl(filePath, stat) ==
  LET pathValidation == validatePathForTool(filePath, "read-file")
  IN  IF ~pathValidation.isValid
      THEN ToolResult(TRUE, Some(pathValidation), FALSE, Undefined, << >>)
      ELSE LET absoluteFilePath == resolveToAbsolutePath(filePath)
           IN  IF absoluteFilePath.threw
               THEN ToolResult(TRUE, Some(pathValidation), TRUE, Undefined, << >>)
               ELSE LET res(isError, io) ==
                          ToolResult(isError, Some(pathValidation), TRUE,
                                     Some(absoluteFilePath.value), io)
                    IN  CASE stat = "ENOENT" -> res(TRUE, <<"stat">>)
                          [] stat = "directory" -> res(TRUE, <<"stat">>)
                          [] stat = "large file" -> res(TRUE, <<"stat">>)
                          [] OTHER -> res(FALSE, <<"stat", "readFile">>)

\* tools/createFile.ts; exists is what existsSync answers for the resolved path
createFileImpl(filePath, overwriteIfExists, exists) ==
  LET pathValidation == validatePathForTool(filePath, "create-file")
  IN  IF ~pathValidation.isValid
      THEN ToolResult(TRUE, Some(pathValidation), FALSE, Undefined, << >>)
      ELSE LET absoluteFilePath == resolveToAbsolutePath(filePath)
           IN  IF absoluteFilePath.threw
               THEN ToolResult(TRUE, Some(pathValidation), TRUE, Undefined, << >>)
               ELSE IF exists /\ ~overwriteIfExists
               THEN ToolResult(TRUE, Some(pathValidation), TRUE,
                               Some(absoluteFilePath.value), <<"existsSync">>)
               ELSE ToolResult(FALSE, Some(pathValidation), TRUE,
                               Some(absoluteFilePath.value),
                               <<"existsSync", "mkdir", "writeFile">>)

\* tools/updateFile.ts; fileExists is whether fs.access succeeds
updateFileHandler(filePath, createIfMissing, fileExists) ==
  LET absolutePath == resolveToAbsolutePath(filePath)
  IN  IF absolutePath.threw
      THEN ToolResult(TRUE, Undefined, TRUE, Undefined, << >>)
      ELSE IF ~fileExists /\ ~createIfMissing
      THEN ToolResult(TRUE, Undefined, TRUE, Some(absolutePath.value), <<"access">>)
      ELSE IF ~fileExists /\ createIfMissing
      THEN ToolResult(FALSE, Undefined, TRUE, Some(absolutePath.value),
                      <<"access", "mkdir", "writeFile">>)
      ELSE ToolResult(FALSE, Undefined, TRUE, Some(absolutePath.value),
                      <<"access", "writeFile">>)

\* tools/searchFiles.ts; exists is what existsSync answers for the search directory
searchFilesImpl(directory, exists) ==
  LET pathValidation ==
        IF directory # Dot THEN Some(validatePathForTool(directory, "search-files"))
        ELSE Undefined
  IN  IF pathValidation # Undefined /\ ~pathValidation[1].isValid
      THEN ToolResult(TRUE, pathValidation, FALSE, Undefined, << >>)
      ELSE LET searchDir == resolveToAbsolutePath(directory)
               repoRoot ==
                 resolveToAbsolutePath(
                   IF StartsWith(directory, Slash)
                   THEN Slash \o Interpolate(At(Split(directory, Slash), 2))
                   ELSE Dot)
           IN  IF searchDir.threw
               THEN ToolResult(TRUE, pathValidation, TRUE, Undefined, << >>)
               ELSE IF repoRoot.threw
               THEN ToolResult(TRUE, pathValidation, TRUE, Some(searchDir.value), << >>)
               ELSE IF ~exists
               THEN ToolResult(TRUE, pathValidation, TRUE, Some(searchDir.value),
                               <<"existsSync">>)
               ELSE ToolResult(FALSE, pathValidation, TRUE, Some(searchDir.value),
                               <<"existsSync", "readdirSync">>)

\* tools/ensureDirExists.ts; stat is what fs.stat answers for the resolved path
ensureDirExistsHandler(dirPath, stat) ==
  LET pathValidation ==
        IF StartsWith(dirPath, Slash)
        THEN Some(validatePathForTool(dirPath, "ensure-dir-exists"))
        ELSE Undefined
  IN  IF pathValidation # Undefined /\ ~pathValidation[1].isValid
      THEN ToolResult(TRUE, pathValidation, FALSE, Undefined, << >>)
      ELSE LET fullPath == resolveToAbsolutePath(dirPath)
           IN  IF fullPath.threw
               THEN ToolResult(TRUE, pathValidation, TRUE, Undefined, << >>)
               ELSE CASE stat = "directory" ->
                           ToolResult(FALSE, pathValidation, TRUE, Some(fullPath.value),
                                      <<"stat">>)
                      [] stat = "ENOENT" ->
                           ToolResult(FALSE, pathValidation, TRUE, Some(fullPath.value),
                                      <<"stat", "mkdir">>)
                      [] OTHER ->
                           ToolResult(TRUE, pathValidation, TRUE, Some(fullPath.value),
                                      <<"stat">>)

StatAnswers == {"ENOENT", "directory", "large file", "file"}

\* Git repositories scanForRepositories can report: path and name
GitRepositories ==
  { [path |-> <<"/", "a">>, name |-> <<"a">>],
    [path |-> <<"/", "B">>, name |-> <<"B">>] }

MaxFound == 2

ScanResults ==
  UNION { { f \in [1..n -> GitRepositories] : \A i, j \in 1..n : i # j => f[i] # f[j] }
          : n \in 0..MaxFound }

\* the registration loop of the get-repositories handler
RECURSIVE addFound(_, _)
addFound(st, found) ==
  IF found = << >> THEN st
  ELSE LET repo == Head(found)
           id == toLowerCase(repo.name)
       IN  addFound(IF getRepositoryIn(st, id) = Undefined
                    THEN addRepository(st, [id |-> id, path |-> repo.path])
                    ELSE st,
                    Tail(found))

----------------------------------------------------------------------------
(* utils/moduleManager.ts: module detection                                *)
(*                                                                         *)
(* A repository on disk is the sequence of its top-level items as          *)
(* fs.readdir lists them.  An item is a record:                            *)
(*   name        the entry's name                                          *)
(*   stat        "directory", "file", or "EACCES" when fs.stat throws      *)
(*   has         the names of the entries directly inside a directory      *)
(*   packageJson what JSON.parse gives for its package.json; absent when   *)
(*               the file cannot be read or parsed                         *)
(*   readdir     whether fs.readdir / find can list the directory          *)
(*   files       the extensions of the files `find` lists under the item,  *)
(*               in the order it lists them ("" for a file without one)    *)

Str_web == <<"w", "e", "b", "-">>
Str_server == <<"s", "e", "r", "v", "e", "r">>
Str_api == <<"a", "p", "i">>
Str_lib == <<"l", "i", "b">>
Str_service == <<"s", "e", "r", "v", "i", "c", "e">>
Str_processor == <<"p", "r", "o", "c", "e", "s", "s", "o", "r">>
Str_docs == <<"d", "o", "c", "s">>
Str_website == <<"w", "e", "b", "s", "i", "t", "e">>
Str_ghpages == <<"g", "h", "-", "p", "a", "g", "e", "s">>
Str_static == <<"s", "t", "a", "t", "i", "c">>
Str_scripts == <<"s", "c", "r", "i", "p", "t", "s">>
Str_examples == <<"e", "x", "a", "m", "p", "l", "e", "s">>
Str_tools == <<"t", "o", "o", "l", "s">>
Str_config == <<"c", "o", "n", "f", "i", "g">>
Str_utils == <<"u", "t", "i", "l", "s">>
Str_Documentation == <<"D", "o", "c", "u", "m", "e", "n", "t", "a", "t", "i", "o", "n">>

LowerLetters ==
  <<"a", "b", "c", "d", "e", "f", "g", "h", "i", "j", "k", "l", "m",
    "n", "o", "p", "q", "r", "s", "t", "u", "v", "w", "x", "y", "z">>
UpperLetters ==
  <<"A", "B", "C", "D", "E", "F", "G", "H", "I", "J", "K", "L", "M",
    "N", "O", "P", "Q", "R", "S", "T", "U", "V", "W", "X", "Y", "Z">>

\* charAt(0).toUpperCase() and toLowerCase() of one character
UpperOf(c) ==
  IF \E i \in 1..26 : LowerLetters[i] = c
  THEN UpperLetters[CHOOSE i \in 1..26 : LowerLetters[i] = c] ELSE c
LowerOf(c) ==
  IF \E i \in 1..26 : UpperLetters[i] = c
  THEN LowerLetters[CHOOSE i \in 1..26 : UpperLetters[i] = c] ELSE c

\* ModuleManager.toTitleCase on a name made of letters, digits, "-" and "_":
\* "-" and "_" become spaces, then the first character of every word is
\* upper-cased and the rest of the word lower-cased
toTitleCase(str) ==
  LET spaced == [i \in 1..Len(str) |-> IF str[i] \in {"-", "_"} THEN " " ELSE str[i]]
  IN  [i \in 1..Len(spaced) |->
         IF spaced[i] = " " THEN " "
         ELSE IF i = 1 \/ spaced[i - 1] = " " THEN UpperOf(spaced[i])
         ELSE LowerOf(spaced[i])]

ModuleInfo(id, name, path, type, language) ==
  [id |-> id, name |-> name, path |-> path, type |-> type, language |-> language]

\* the langMap table of detectLanguage
langMap ==
  [ext \in {".js", ".jsx", ".ts", ".tsx", ".py", ".go", ".rs", ".java", ".rb",
            ".php", ".c", ".cpp", ".cs", ".swift", ".html", ".css", ".scss",
            ".less", ".md", ".json", ".yml", ".yaml", ".toml", ".sh", ".bash"} |->
     CASE ext \in {".js", ".jsx"} -> "javascript"
       [] ext \in {".ts", ".tsx"} -> "typescript"
       [] ext = ".py" -> "python"
       [] ext = ".go" -> "go"
       [] ext = ".rs" -> "rust"
       [] ext = ".java" -> "java"
       [] ext = ".rb" -> "ruby"
       [] ext = ".php" -> "php"
       [] ext = ".c" -> "c"
       [] ext = ".cpp" -> "cpp"
       [] ext = ".cs" -> "csharp"
       [] ext = ".swift" -> "swift"
       [] ext = ".html" -> "html"
       [] ext = ".css" -> "css"
       [] ext = ".scss" -> "scss"
       [] ext = ".less" -> "less"
       [] ext = ".md" -> "markdown"
       [] ext = ".json" -> "json"
       [] ext \in {".yml", ".yaml"} -> "yaml"
       [] ext = ".toml" -> "toml"
       [] ext \in {".sh", ".bash"} -> "shell"]

\* the keys of a Record<string, number> in the order they were first set
RECURSIVE FirstSeen(_)
FirstSeen(keys) ==
  IF keys = << >> THEN << >>
  ELSE LET rest == FirstSeen(SubSeq(keys, 1, Len(keys) - 1))
           k == keys[Len(keys)]
       IN  IF \E i \in 1..Len(rest) : rest[i] = k THEN rest ELSE Append(rest, k)

\* the loop that keeps the first entry whose count is above every earlier one
RECURSIVE mostCommon(_, _, _, _)
mostCommon(langs, count, maxCount, primaryLang) ==
  IF langs = << >> THEN primaryLang
  ELSE IF count[Head(langs)] > maxCount
  THEN mostCommon(Tail(langs), count, count[Head(langs)], Head(langs))
  ELSE mostCommon(Tail(langs), count, maxCount, primaryLang)

\* ModuleManager.detectLanguage; findOk is whether `find` exits with status 0,
\* files are the extensions (path.extname, lower-cased) of the files it lists
detectLanguage(findOk, files) ==
  IF ~findOk THEN "unknown"
  ELSE LET exts == FirstSeen(SelectSeq(files, LAMBDA e : e # ""))
           extCounts == [e \in {exts[i] : i \in 1..Len(exts)} |->
                           Cardinality({i \in 1..Len(files) : files[i] = e})]
           langOf(e) == IF e \in DOMAIN langMap THEN langMap[e] ELSE "unknown"
           langs == FirstSeen([i \in 1..Len(exts) |-> langOf(exts[i])])
           langCounts == [l \in {langs[i] : i \in 1..Len(langs)} |->
                            LET of == {e \in DOMAIN extCounts : langOf(e) = l}
                                RECURSIVE Sum(_)
                                Sum(S) == IF S = {} THEN 0
                                          ELSE LET e == CHOOSE x \in S : TRUE
                                               IN  extCounts[e] + Sum(S \ {e})
                            IN  Sum(of)]
       IN  mostCommon(langs, langCounts, 0, "unknown")

\* the entry names that end with ".md"
MarkdownFiles == {"README.md"}

\* the item of a repository that path.join(repoPath, name) names, if any
FindItem(layout, name) ==
  LET hits == {i \in 1..Len(layout.items) : layout.items[i].name = name}
  IN  IF hits = {} THEN Undefined ELSE Some(layout.items[CHOOSE i \in hits : TRUE])

\* Cargo.toml is looked for before the other manifests
conventionalModule_CargoFirst(item) ==
  LET name == item.name
      pkg == item.packageJson
      python == item.has \cap {"requirements.txt", "setup.py", "pyproject.toml"} # {}
  IN  IF "Cargo.toml" \in item.has
      THEN Some(ModuleInfo(name, toTitleCase(name), name, "service", "rust"))
      ELSE IF "package.json" \in item.has /\ pkg # Undefined
      THEN Some(ModuleInfo(name,
                           IF Truthy(pkg[1].name) THEN pkg[1].name[1]
                           ELSE toTitleCase(name),
                           name, "unknown", "typescript"))
      ELSE IF python
      THEN Some(ModuleInfo(name, toTitleCase(name), name, "unknown", "python"))
      ELSE IF "go.mod" \in item.has
      THEN Some(ModuleInfo(name, toTitleCase(name), name, "service", "go"))
      ELSE Undefined

\* the module the manifest checks give for one directory; absent when none matches
conventionalModule(item) ==
  LET name == item.name
      pkg == item.packageJson
      python == item.has \cap {"requirements.txt", "setup.py", "pyproject.toml"} # {}
  IN  IF "package.json" \in item.has /\ pkg # Undefined
      THEN LET deps == pkg[1].dependencies
               moduleType ==
                 IF StartsWith(name, Str_web) \/ "react" \in deps THEN "web"
                 ELSE IF \/ Includes(name, Str_server)
                         \/ Includes(name, Str_api)
                         \/ deps \cap {"express", "fastify", "koa"} # {}
                 THEN "service"
                 ELSE IF Includes(name, Str_lib) \/ pkg[1].private = "false"
                 THEN "library"
                 ELSE "unknown"
           IN  Some(ModuleInfo(name,
                               IF Truthy(pkg[1].name) THEN pkg[1].name[1]
                               ELSE toTitleCase(name),
                               name, moduleType, "typescript"))
      ELSE IF python
      THEN LET moduleType ==
                 IF Includes(name, Str_api) THEN "api"
                 ELSE IF Includes(name, Str_service) \/ Includes(name, Str_processor)
                 THEN "service"
                 ELSE IF StartsWith(name, Str_web) \/ "templates" \in item.has THEN "web"
                 ELSE "unknown"
           IN  Some(ModuleInfo(name, toTitleCase(name), name, moduleType, "python"))
      ELSE IF "go.mod" \in item.has
      THEN Some(ModuleInfo(name, toTitleCase(name), name,
                           IF Includes(name, Str_api) THEN "api" ELSE "service", "go"))
      ELSE IF "Cargo.toml" \in item.has
      THEN Some(ModuleInfo(name, toTitleCase(name), name, "service", "rust"))
      ELSE Undefined

\* a failing fs.stat is not caught inside the loop: the pass ends with the
\* modules found so far
RECURSIVE conventionalOf_StopAtFailure(_)
conventionalOf_StopAtFailure(items) ==
  IF items = << >> THEN << >>
  ELSE LET item == Head(items)
           found ==
             IF item.stat # "directory" \/ StartsWith(item.name, <<".">>) THEN Undefined
             ELSE conventionalModule(item)
       IN  IF item.stat = "throws" THEN << >>
           ELSE found \o conventionalOf_StopAtFailure(Tail(items))

\* the loop of detectConventionalModules over the top-level items
RECURSIVE conventionalOf(_)
conventionalOf(items) ==
  IF items = << >> THEN << >>
  ELSE LET item == Head(items)
           found ==
             IF item.stat # "directory" \/ StartsWith(item.name, <<".">>) THEN Undefined
             ELSE conventionalModule(item)
       IN  found \o conventionalOf(Tail(items))

\* ModuleManager.detectConventionalModules
detectConventionalModules(layout) ==
  IF ~layout.readdir THEN << >> ELSE conventionalOf(layout.items)

\* the loop of detectStaticSiteModules over staticSiteDirs
RECURSIVE staticSiteOf(_, _)
staticSiteOf(layout, dirs) ==
  IF dirs = << >> THEN << >>
  ELSE LET dir == Head(dirs)
           item == FindItem(layout, dir)
           found ==
             IF item = Undefined \/ item[1].stat # "directory" \/ ~item[1].readdir
             THEN Undefined
             ELSE LET hasIndexHtml == "index.html" \in item[1].has
                      hasMarkdown == item[1].has \cap MarkdownFiles # {}
                  IN  IF hasIndexHtml \/ hasMarkdown
                      THEN Some(ModuleInfo(dir,
                                           IF dir = Str_docs THEN Str_Documentation
                                           ELSE toTitleCase(dir),
                                           dir, "static-site",
                                           IF hasMarkdown THEN "markdown" ELSE "html"))
                      ELSE Undefined
       IN  found \o staticSiteOf(layout, Tail(dirs))

\* only docs is looked for
detectStaticSiteModules_DocsOnly(layout) ==
  staticSiteOf(layout, <<Str_docs>>)

\* ModuleManager.detectStaticSiteModules
detectStaticSiteModules(layout) ==
  staticSiteOf(layout, <<Str_docs, Str_website, Str_ghpages, Str_static>>)

\* the loop of detectUtilityModules over utilityDirs
RECURSIVE utilityOf(_, _)
utilityOf(layout, dirs) ==
  IF dirs = << >> THEN << >>
  ELSE LET dir == Head(dirs)
           item == FindItem(layout, dir)
           found ==
             IF item = Undefined \/ item[1].stat # "directory" THEN Undefined
             ELSE Some(ModuleInfo(dir, toTitleCase(dir), dir, "utility",
                                  detectLanguage(item[1].readdir, item[1].files)))
       IN  found \o utilityOf(layout, Tail(dirs))

\* ModuleManager.detectUtilityModules
detectUtilityModules(layout) ==
  utilityOf(layout, <<Str_scripts, Str_examples, Str_tools, Str_config, Str_utils>>)

\* what `find repoPath ...` lists for the whole repository, and whether it
\* exits with status 0 (it does not when a directory cannot be read)
RECURSIVE filesOf(_)
filesOf(items) ==
  IF items = << >> THEN << >>
  ELSE (IF Head(items).stat = "throws" THEN << >> ELSE Head(items).files)
         \o filesOf(Tail(items))

findSucceeds(layout) ==
  /\ layout.readdir
  /\ \A i \in 1..Len(layout.items) :
       layout.items[i].stat = "directory" => layout.items[i].readdir

\* the catch-all module is added whatever the passes found
detectModulesInRepository_AlwaysCatchAll(layout, repoId, displayName) ==
  detectConventionalModules(layout)
    \o detectStaticSiteModules(layout)
    \o detectUtilityModules(layout)
    \o <<ModuleInfo(repoId, displayName, << >>, "unknown",
                    detectLanguage(findSucceeds(layout), filesOf(layout.items)))>>

\* ModuleManager.detectModulesInRepository; displayName is
\* repoManager.getRepository(repoId)?.displayName || repoId
detectModulesInRepository(layout, repoId, displayName) ==
  LET modules == detectConventionalModules(layout)
                   \o detectStaticSiteModules(layout)
                   \o detectUtilityModules(layout)
  IN  IF Len(modules) = 0
      THEN <<ModuleInfo(repoId, displayName, << >>, "unknown",
                        detectLanguage(findSucceeds(layout), filesOf(layout.items)))>>
      ELSE modules

\* ModuleManager.registerModule on the module registry
registerModule(mods, repoId, moduleInfo) ==
  LET repoModules == IF repoId \in DOMAIN mods THEN mods[repoId] ELSE << >>
      moduleWithRepo ==
        [id |-> moduleInfo.id, name |-> moduleInfo.name, path |-> moduleInfo.path,
         type |-> moduleInfo.type, language |-> moduleInfo.language, repoId |-> repoId]
  IN  MapSet(mods, repoId, MapSet(repoModules, moduleInfo.id, moduleWithRepo))

\* modules.forEach(module => this.registerModule(repo.id, module))
RECURSIVE registerModules(_, _, _)
registerModules(mods, repoId, modules) ==
  IF modules = << >> THEN mods
  ELSE registerModules(registerModule(mods, repoId, Head(modules)), repoId, Tail(modules))

\* String.prototype.toLowerCase on a module name or id
lowerCase(s) == [i \in 1..Len(s) |-> LowerOf(s[i])]

\* every module of the module registry, whatever its repository
allModules(mods) ==
  UNION {{mods[r][id] : id \in DOMAIN mods[r]} : r \in DOMAIN mods}

\* the substring tier is tried first
getModuleByName_FuzzyFirst(mods, moduleName) ==
  LET fuzzy == {m \in allModules(mods) :
                  \/ Includes(lowerCase(m.name), lowerCase(moduleName))
                  \/ Includes(lowerCase(m.id), lowerCase(moduleName))}
  IN  fuzzy

\* ModuleManager.getModuleByName: the modules the call can return, the empty
\* set when it returns undefined.  Inside a tier the loops return the first
\* match in the insertion order of the Maps; the registry keeps no order, so
\* every match of the tier is a possible result.
getModuleByName(mods, moduleName) ==
  LET byId == {mods[r][moduleName] : r \in {x \in DOMAIN mods : moduleName \in DOMAIN mods[x]}}
      exact == {m \in allModules(mods) : m.name = moduleName \/ m.id = moduleName}
      fuzzy == {m \in allModules(mods) :
                  \/ Includes(lowerCase(m.name), lowerCase(moduleName))
                  \/ Includes(lowerCase(m.id), lowerCase(moduleName))}
  IN  IF byId # {} THEN byId
      ELSE IF exact # {} THEN exact
      ELSE fuzzy

\* RepoManager.capitalizeRepoId: the display name of a repository that has
\* no REPO_NAME_<ID> variable
capitalizeRepoId(repoId) ==
  IF repoId = << >> THEN << >> ELSE <<UpperOf(repoId[1])>> \o Tail(repoId)

\* repositories on disk -----------------------------------------------------

\* names of top-level items
ItemNames == {Str_docs, Str_scripts, Str_api, <<"x">>}

PlainPackage == [name |-> Undefined, dependencies |-> {}, private |-> "undefined"]
ReactPackage == [name |-> Some(<<"u", "i">>), dependencies |-> {"react"},
                 private |-> "true"]

\* what an item can be, apart from its name
ItemContents ==
  { \* an empty directory
    [stat |-> "directory", has |-> {}, packageJson |-> Undefined,
     readdir |-> TRUE, files |-> << >>],
    \* a directory with a package.json that declares react
    [stat |-> "directory", has |-> {"package.json"}, packageJson |-> Some(ReactPackage),
     readdir |-> TRUE, files |-> <<".json", ".ts">>],
    \* a directory with a package.json that cannot be parsed and a requirements.txt
    [stat |-> "directory", has |-> {"package.json", "requirements.txt"},
     packageJson |-> Undefined, readdir |-> TRUE, files |-> <<".json", ".txt", ".py">>],
    \* a directory with an index.html only
    [stat |-> "directory", has |-> {"index.html"}, packageJson |-> Undefined,
     readdir |-> TRUE, files |-> <<".html">>],
    \* a directory with a README.md, an index.html and a plain package.json
    [stat |-> "directory", has |-> {"README.md", "index.html", "package.json"},
     packageJson |-> Some(PlainPackage), readdir |-> TRUE,
     files |-> <<".md", ".html", ".json">>],
    \* a directory of Python files
    [stat |-> "directory", has |-> {"run.py"}, packageJson |-> Undefined,
     readdir |-> TRUE, files |-> <<".py", ".py">>],
    \* a directory that cannot be listed
    [stat |-> "directory", has |-> {}, packageJson |-> Undefined,
     readdir |-> FALSE, files |-> << >>],
    \* a file
    [stat |-> "file", has |-> {}, packageJson |-> Undefined,
     readdir |-> FALSE, files |-> <<".md">>],
    \* an entry fs.stat fails on
    [stat |-> "throws", has |-> {}, packageJson |-> Undefined,
     readdir |-> FALSE, files |-> << >>],
    \* a directory with a go.mod
    [stat |-> "directory", has |-> {"go.mod"}, packageJson |-> Undefined,
     readdir |-> TRUE, files |-> <<".go", ".mod">>],
    \* a directory with a Cargo.toml
    [stat |-> "directory", has |-> {"Cargo.toml"}, packageJson |-> Undefined,
     readdir |-> TRUE, files |-> <<".toml", ".rs">>],
    \* a directory with a plain package.json, a go.mod and a Cargo.toml
    [stat |-> "directory", has |-> {"package.json", "go.mod", "Cargo.toml"},
     packageJson |-> Some(PlainPackage), readdir |-> TRUE,
     files |-> <<".json", ".go", ".toml">>] }

\* a hidden directory with a package.json that declares react, and
\* directories under the other names of the static-site pass
ExtraItems ==
  { [name |-> <<".", "g">>, stat |-> "directory", has |-> {"package.json"},
     packageJson |-> Some(ReactPackage), readdir |-> TRUE, files |-> <<".json", ".ts">>],
    [name |-> Str_website, stat |-> "directory", has |-> {"index.html"},
     packageJson |-> Undefined, readdir |-> TRUE, files |-> <<".html">>],
    [name |-> Str_ghpages, stat |-> "directory", has |-> {"README.md"},
     packageJson |-> Undefined, readdir |-> TRUE, files |-> <<".md">>],
    [name |-> Str_static, stat |-> "directory", has |-> {"logo.png"},
     packageJson |-> Undefined, readdir |-> TRUE, files |-> <<".png">>] }

\* the contents an item of a given name is drawn with: every content under a
\* name no pass knows; under "api", whose name decides the type of a manifest
\* module, the contents with a manifest; under "docs" and "scripts" the
\* contents the static-site and utility passes look at, and package.json
ItemFits(n, c) ==
  \/ n \notin {Str_api, Str_docs, Str_scripts}
  \/ n = Str_api /\ c.has \cap {"package.json", "requirements.txt", "go.mod"} # {}
  \/ n = Str_docs /\ c.has \cap {"go.mod", "Cargo.toml"} = {}
  \/ n = Str_scripts
       /\ c.has \cap {"go.mod", "Cargo.toml", "requirements.txt", "README.md"} = {}

Items ==
  { [name |-> n, stat |-> c.stat, has |-> c.has, packageJson |-> c.packageJson,
     readdir |-> c.readdir, files |-> c.files] :
      <<n, c>> \in {x \in ItemNames \X ItemContents : ItemFits(x[1], x[2])} }
    \cup ExtraItems

\* a repository has at most MaxItems top-level items
MaxItems == 2

\* the sequences of at most n items with different names
RECURSIVE ItemSeqs(_)
ItemSeqs(n) ==
  IF n = 0 THEN {<< >>}
  ELSE LET shorter == ItemSeqs(n - 1)
       IN  shorter \cup
           { Append(q, it) : q \in {x \in shorter : Len(x) = n - 1},
                             it \in Items } 

DistinctNames(q) == \A i, j \in 1..Len(q) : i # j => q[i].name # q[j].name

Layouts ==
  [readdir : BOOLEAN, items : {q \in ItemSeqs(MaxItems) : DistinctNames(q)}]

----------------------------------------------------------------------------
(* The state machine: the server is constructed, then serves one call at a *)
(* time; `last` is the call being served and what it returned.  A field of *)
(* `last` holds values of one type only, whatever the call.                *)

\* the tools registerAllTools registers
AllTools ==
  {"get-repositories", "repo-tree", "read-file", "search-files", "create-file",
   "update-file", "ensure-dir-exists"}

\* main() has registered the tools and connected the transport; the module
\* registry is left aside
Started ==
  /\ pc = "serving"
  /\ tools = AllTools
  /\ modulesByRepo = << >>
  /\ scanQueue = {}
  /\ scanning = Undefined
  /\ lastScan = Undefined

IdleCall == [op |-> "idle"]
Idle == last.op = "idle"

Call(op, path, result) == [op |-> op, path |-> path, result |-> result]

Init ==
  /\ \E env \in Envs :
       LET st == loadFromEnvironment(env)
       IN  /\ repositories = st.repositories
           /\ _defaultRepoId = st._defaultRepoId
  /\ cwd = Some(Slash)
  /\ Started
  /\ last = IdleCall

GetPathFormatType(path) ==
  /\ Idle
  /\ last' = Call("getPathFormatType", path,
                  [threw |-> FALSE, formatType |-> getPathFormatType(path)])
  /\ UNCHANGED <<registryVars, processVars, moduleVars, mainVars>>

ParsePathFormat(path) ==
  /\ Idle
  /\ last' = Call("parsePathFormat", path, parsePathFormat(path))
  /\ UNCHANGED <<registryVars, processVars, moduleVars, mainVars>>

ValidatePathForTool(path) ==
  /\ Idle
  /\ last' = Call("validatePathForTool", path, validatePathForTool(path, "path-demo"))
  /\ UNCHANGED <<registryVars, processVars, moduleVars, mainVars>>

FormatPathForTool(path) ==
  /\ Idle
  /\ last' = Call("formatPathForTool", path, formatPathForTool(path, "path-demo"))
  /\ UNCHANGED <<registryVars, processVars, moduleVars, mainVars>>

FormatPathObjectForTool(ref) ==
  /\ Idle
  /\ last' = [op |-> "formatPathForTool(object)", ref |-> ref,
              result |-> formatPathObjectForTool(ref, "path-demo")]
  /\ UNCHANGED <<registryVars, processVars, moduleVars, mainVars>>

ResolveToAbsolutePath(path) ==
  /\ Idle
  /\ last' = Call("resolveToAbsolutePath", path, resolveToAbsolutePath(path))
  /\ UNCHANGED <<registryVars, processVars, moduleVars, mainVars>>

ReadFile(path) ==
  /\ Idle
  /\ \E stat \in StatAnswers : last' = Call("read-file", path, readFileImpl(path, stat))
  /\ UNCHANGED <<registryVars, processVars, moduleVars, mainVars>>

CreateFile(path) ==
  /\ Idle
  /\ \E overwriteIfExists, exists \in BOOLEAN :
       last' = Call("create-file", path, createFileImpl(path, overwriteIfExists, exists))
  /\ UNCHANGED <<registryVars, processVars, moduleVars, mainVars>>

UpdateFile(path) ==
  /\ Idle
  /\ \E createIfMissing, fileExists \in BOOLEAN :
       last' = Call("update-file", path, updateFileHandler(path, createIfMissing, fileExists))
  /\ UNCHANGED <<registryVars, processVars, moduleVars, mainVars>>

SearchFiles(directory) ==
  /\ Idle
  /\ \E exists \in BOOLEAN :
       last' = Call("search-files", directory, searchFilesImpl(directory, exists))
  /\ UNCHANGED <<registryVars, processVars, moduleVars, mainVars>>

EnsureDirExists(path) ==
  /\ Idle
  /\ \E stat \in StatAnswers :
       last' = Call("ensure-dir-exists", path, ensureDirExistsHandler(path, stat))
  /\ UNCHANGED <<registryVars, processVars, moduleVars, mainVars>>

GetRepositories(found) ==
  /\ Idle
  /\ LET st == addFound(repoManager, found)
     IN  /\ repositories' = st.repositories
         /\ _defaultRepoId' = st._defaultRepoId
  /\ cwd' = resetWorkingDirectory(cwd).cwd
  /\ last' = Call("get-repositories", << >>, [threw |-> FALSE, found |-> found])
  /\ UNCHANGED <<moduleVars, mainVars>>

\* the call returns to its caller and the server waits for the next one
Return ==
  /\ ~Idle
  /\ last' = IdleCall
  /\ UNCHANGED <<registryVars, processVars, moduleVars, mainVars>>

\* a call is taken only while no other is being served: the test is made
\* before the call's arguments are drawn
Next ==
  \/ Idle /\ \E path \in Addresses : GetPathFormatType(path)
  \/ Idle /\ \E path \in Addresses : ParsePathFormat(path)
  \/ Idle /\ \E path \in Addresses : ValidatePathForTool(path)
  \/ Idle /\ \E path \in Addresses : FormatPathForTool(path)
  \/ Idle /\ \E ref \in References : FormatPathObjectForTool(ref)
  \/ Idle /\ \E path \in Addresses : ResolveToAbsolutePath(path)
  \/ Idle /\ \E path \in ToolAddresses : ReadFile(path)
  \/ Idle /\ \E path \in ToolAddresses : CreateFile(path)
  \/ Idle /\ \E path \in ToolAddresses : UpdateFile(path)
  \/ Idle /\ \E directory \in ToolAddresses \cup {Dot} : SearchFiles(directory)
  \/ Idle /\ \E path \in ToolAddresses : EnsureDirExists(path)
  \/ Idle /\ \E found \in ScanResults : GetRepositories(found)
  \/ Return

Spec == Init /\ [][Next]_vars

----------------------------------------------------------------------------
(* The RepoManager singleton on its own: it is constructed from the        *)
(* environment in some directory, then its public methods and the          *)
(* get-repositories tool are called, one call at a time.                   *)

\* directories the process can be started in; absent: one that no longer exists
StartDirectories == {Some(Slash), Some(<<"/", "h">>), Undefined}

\* configurations given to addRepository: a registered or a new id, with an
\* absolute path that exists, a relative one, or a path that does not exist
RepoConfigs ==
  [id : {<<"a">>, <<"c">>},
   path : {<<"/", "r">>, <<"/", "s">>, <<"r">>, <<"/", "x">>}]

\* ids given to setRepositoryAsWorkingDirectory; the empty one is an omitted id
SwitchRepoIds == {<< >>, <<"a">>, <<"b">>, <<"c">>}

InitRepoManager ==
  /\ \E env \in Envs :
       LET st == loadFromEnvironment(env)
       IN  /\ repositories = st.repositories
           /\ _defaultRepoId = st._defaultRepoId
           /\ last = [op |-> "new RepoManager", env |-> env]
  /\ \E dir \in StartDirectories : cwd = resetWorkingDirectory(dir).cwd
  /\ Started

AddRepository(config) ==
  /\ Idle
  /\ LET st == addRepository(repoManager, config)
     IN  /\ repositories' = st.repositories
         /\ _defaultRepoId' = st._defaultRepoId
  /\ last' = [op |-> "addRepository", config |-> config, before |-> repoManager]
  /\ UNCHANGED <<processVars, moduleVars, mainVars>>

ResetWorkingDirectory ==
  /\ Idle
  /\ LET reset == resetWorkingDirectory(cwd)
     IN  /\ cwd' = reset.cwd
         /\ last' = [op |-> "resetWorkingDirectory", prior |-> cwd, result |-> reset]
  /\ UNCHANGED <<registryVars, moduleVars, mainVars>>

SetRepositoryAsWorkingDirectory(repoId) ==
  /\ Idle
  /\ \E chdirOk \in BOOLEAN :
       LET repo == getRepository(repoId)
           switch == setRepositoryAsWorkingDirectory(repoManager, cwd, repoId, chdirOk)
       IN  \* a root that was never there cannot be entered; one that was may be gone
           /\ chdirOk => repo # Undefined /\ existsSync(repo[1].path)
           /\ cwd' = switch.cwd
           /\ last' = [op |-> "setRepositoryAsWorkingDirectory", path |-> repoId,
                       prior |-> cwd, result |-> switch]
  /\ UNCHANGED <<registryVars, moduleVars, mainVars>>

\* the directory the process is in is removed by another process
CurrentDirectoryRemoved ==
  /\ Idle
  /\ cwd # Undefined /\ cwd # Some(Slash)
  /\ cwd' = Undefined
  /\ UNCHANGED <<registryVars, moduleVars, mainVars, last>>

ReturnRepoManager ==
  /\ ~Idle
  /\ last' = IdleCall
  /\ UNCHANGED <<registryVars, processVars, moduleVars, mainVars>>

NextRepoManager ==
  \/ Idle /\ \E config \in RepoConfigs : AddRepository(config)
  \/ Idle /\ \E found \in ScanResults : GetRepositories(found)
  \/ ResetWorkingDirectory
  \/ Idle /\ \E repoId \in SwitchRepoIds : SetRepositoryAsWorkingDirectory(repoId)
  \/ CurrentDirectoryRemoved
  \/ ReturnRepoManager

SpecRepoManager == InitRepoManager /\ [][NextRepoManager]_vars

----------------------------------------------------------------------------
(* main(): the registry is loaded when the modules are imported, then      *)
(* autoDetectAllModules scans the repositories one after the other, then   *)
(* the tools are registered and the transport is connected; from then on   *)
(* tool calls are served, and autoDetectAllModules may be run again.       *)

\* what the repositories hold when they are scanned
MainItems ==
  { it \in Items :
      \/ it.name = Str_docs /\ it.has = {"index.html"}
      \/ it.name = <<"x">> /\ it.packageJson = Some(ReactPackage) }

MainLayouts ==
  [readdir : {TRUE}, items : {<< >>} \cup {<<it>> : it \in MainItems}]

\* the addresses read-file is called with
MainAddresses == {<<"/", "a", "/", "b">>}

\* main() goes on without awaiting autoDetectAllModules
DetectionDone_NotAwaited == TRUE

\* the await of autoDetectAllModules in main(): the loop has taken every
\* repository and no detection is pending
DetectionDone == scanQueue = {} /\ scanning = Undefined

InitMain ==
  /\ \E env \in Envs :
       LET st == loadFromEnvironment(env)
       IN  /\ repositories = st.repositories
           /\ _defaultRepoId = st._defaultRepoId
  /\ cwd = Some(Slash)
  /\ modulesByRepo = << >>
  /\ scanQueue = DOMAIN repositories
  /\ scanning = Undefined
  /\ lastScan = Undefined
  /\ pc = "autoDetectAllModules"
  /\ tools = {}
  /\ last = IdleCall

\* the detections are started without awaiting the one before
StartScan_NotAwaited(repoId) ==
  /\ pc \in {"autoDetectAllModules", "rescan"}
  /\ repoId \in scanQueue
  /\ scanQueue' = scanQueue \ {repoId}
  /\ scanning' = Some(repoId)
  /\ cwd' = resetWorkingDirectory(cwd).cwd
  /\ UNCHANGED <<registryVars, modulesByRepo, lastScan, mainVars, last>>

\* the loop of autoDetectAllModules takes the next repository and calls
\* detectModulesInRepository, which resets the working directory and suspends.
\* (The loop follows the Map's insertion order; any order is allowed here.)
StartScan(repoId) ==
  /\ pc \in {"autoDetectAllModules", "rescan"}
  /\ scanning = Undefined
  /\ repoId \in scanQueue
  /\ scanQueue' = scanQueue \ {repoId}
  /\ scanning' = Some(repoId)
  /\ cwd' = resetWorkingDirectory(cwd).cwd
  /\ UNCHANGED <<registryVars, modulesByRepo, lastScan, mainVars, last>>

\* the awaited detection resolves and its modules are registered
FinishScan(layout) ==
  /\ scanning # Undefined
  /\ LET repoId == scanning[1]
         modules == detectModulesInRepository(layout, repoId, capitalizeRepoId(repoId))
     IN  /\ modulesByRepo' = registerModules(modulesByRepo, repoId, modules)
         /\ lastScan' = Some([repoId |-> repoId, modules |-> modules])
  /\ scanning' = Undefined
  /\ UNCHANGED <<registryVars, processVars, scanQueue, mainVars, last>>

\* autoDetectAllModules returns to main()
FinishDetection ==
  /\ pc = "autoDetectAllModules"
  /\ DetectionDone
  /\ pc' = "registerAllTools"
  /\ UNCHANGED <<registryVars, processVars, moduleVars, tools, last>>

RegisterAllTools ==
  /\ pc = "registerAllTools"
  /\ tools' = AllTools
  /\ pc' = "connect"
  /\ UNCHANGED <<registryVars, processVars, moduleVars, last>>

\* server.connect(transport): calls are served from now on
Connect ==
  /\ pc = "connect"
  /\ pc' = "serving"
  /\ UNCHANGED <<registryVars, processVars, moduleVars, tools, last>>

\* a registered tool is called while the server is connected
Served(tool) == pc = "serving" /\ tool \in tools

\* autoDetectAllModules is run again
Rescan ==
  /\ pc = "serving"
  /\ Idle
  /\ pc' = "rescan"
  /\ scanQueue' = DOMAIN repositories
  /\ UNCHANGED <<registryVars, processVars, modulesByRepo, scanning, lastScan, tools, last>>

FinishRescan ==
  /\ pc = "rescan"
  /\ DetectionDone
  /\ pc' = "serving"
  /\ UNCHANGED <<registryVars, processVars, moduleVars, tools, last>>

NextMain ==
  \/ \E repoId \in scanQueue : StartScan(repoId)
  \/ scanning # Undefined /\ \E layout \in MainLayouts : FinishScan(layout)
  \/ FinishDetection
  \/ RegisterAllTools
  \/ Connect
  \/ Served("read-file") /\ Idle /\ \E path \in MainAddresses : ReadFile(path)
  \/ Served("get-repositories") /\ Idle /\ \E found \in ScanResults : GetRepositories(found)
  \/ Return
  \/ Rescan
  \/ FinishRescan

SpecMain == InitMain /\ [][NextMain]_vars

----------------------------------------------------------------------------
(* Detection on its own: one repository is registered, it holds some       *)
(* layout on disk, and autoDetectAllModules is run once on a new           *)
(* ModuleManager.                                                          *)

\* the repository that is scanned
DetectRepo == [id |-> <<"a">>, path |-> <<"/", "r">>]

InitDetect ==
  /\ repositories = MapSet(<< >>, DetectRepo.id, DetectRepo)
  /\ _defaultRepoId = Some(DetectRepo.id)
  /\ cwd = Some(Slash)
  /\ modulesByRepo = << >>
  /\ scanQueue = {DetectRepo.id}
  /\ scanning = Undefined
  /\ lastScan = Undefined
  /\ pc = "autoDetectAllModules"
  /\ tools = {}
  /\ \E layout \in Layouts : last = [op |-> "disk", layout |-> layout]

\* autoDetectAllModules over the one repository: the three passes, the
\* catch-all, the registration of what was found, and the total it returns
AutoDetectAllModules ==
  /\ last.op = "disk"
  /\ scanQueue = {DetectRepo.id}
  /\ LET layout == last.layout
         repoId == DetectRepo.id
         modules == detectModulesInRepository(layout, repoId, capitalizeRepoId(repoId))
     IN  /\ modulesByRepo' = registerModules(modulesByRepo, repoId, modules)
         /\ lastScan' = Some([repoId |-> repoId, modules |-> modules])
         /\ last' = [op |-> "autoDetectAllModules", layout |-> layout,
                     result |-> [threw |-> FALSE,
                                 passes |-> detectConventionalModules(layout)
                                              \o detectStaticSiteModules(layout)
                                              \o detectUtilityModules(layout),
                                 totalModules |-> Len(modules)]]
  /\ scanQueue' = {}
  /\ cwd' = resetWorkingDirectory(cwd).cwd
  /\ pc' = "registerAllTools"
  /\ UNCHANGED <<registryVars, scanning, tools>>

NextDetect == AutoDetectAllModules

SpecDetect == InitDetect /\ [][NextDetect]_vars

----------------------------------------------------------------------------
(* The module registry on its own: modules are registered for two          *)
(* repositories with registerModule, and getModuleByName is called.        *)

Str_apigateway == <<"a", "p", "i", "-", "g", "a", "t", "e", "w", "a", "y">>
Str_Api == <<"A", "p", "i">>

\* the repositories modules are registered for
ModuleRepoIds == {<<"a">>, <<"b">>}

\* the modules registerModule is given: api and api-gateway, a module whose
\* package name is "api" under another id, and the documentation
ModuleInfos ==
  { ModuleInfo(Str_api, Str_Api, Str_api, "service", "typescript"),
    ModuleInfo(Str_apigateway, toTitleCase(Str_apigateway), Str_apigateway, "service", "go"),
    ModuleInfo(<<"x">>, Str_api, <<"x">>, "library", "typescript"),
    ModuleInfo(Str_docs, Str_Documentation, Str_docs, "static-site", "html") }

\* the names getModuleByName is asked for
ModuleNames ==
  {Str_api, Str_Api, <<"g", "a", "t", "e">>, <<"D", "O", "C">>, <<"z">>, << >>}

InitModules ==
  /\ LET empty == [repositories |-> << >>, _defaultRepoId |-> Undefined]
         st == addRepository(addRepository(empty, [id |-> <<"a">>, path |-> <<"/", "r">>]),
                             [id |-> <<"b">>, path |-> <<"/", "s">>])
     IN  /\ repositories = st.repositories
         /\ _defaultRepoId = st._defaultRepoId
  /\ cwd = Some(Slash)
  /\ Started
  /\ last = IdleCall

RegisterModule(repoId, moduleInfo) ==
  /\ Idle
  /\ modulesByRepo' = registerModule(modulesByRepo, repoId, moduleInfo)
  /\ UNCHANGED <<registryVars, processVars, scanQueue, scanning, lastScan, mainVars, last>>

GetModuleByName(moduleName) ==
  /\ Idle
  /\ LET results == getModuleByName(modulesByRepo, moduleName)
     IN  \E found \in IF results = {} THEN {Undefined} ELSE {Some(m) : m \in results} :
           last' = Call("getModuleByName", moduleName, [threw |-> FALSE, found |-> found])
  /\ UNCHANGED <<registryVars, processVars, moduleVars, mainVars>>

ReturnModules ==
  /\ ~Idle
  /\ last' = IdleCall
  /\ UNCHANGED <<registryVars, processVars, moduleVars, mainVars>>

NextModules ==
  \/ Idle /\ \E repoId \in ModuleRepoIds, moduleInfo \in ModuleInfos :
               RegisterModule(repoId, moduleInfo)
  \/ Idle /\ \E moduleName \in ModuleNames : GetModuleByName(moduleName)
  \/ ReturnModules

SpecModules == InitModules /\ [][NextModules]_vars

----------------------------------------------------------------------------
(* detectLanguage on its own: a directory holds some files and             *)
(* detectLanguage is called on it.                                         *)

\* the extensions of the files of a directory: three of the table, one that
\* is not in it, and none
FileExtensions == {".py", ".ts", ".tsx", ".txt", ""}

\* `find` lists at most MaxFiles files
MaxFiles == 3

FileLists == UNION {[1..n -> FileExtensions] : n \in 0..MaxFiles}

InitLanguage ==
  /\ repositories = MapSet(<< >>, DetectRepo.id, DetectRepo)
  /\ _defaultRepoId = Some(DetectRepo.id)
  /\ cwd = Some(Slash)
  /\ Started
  /\ \E findOk \in BOOLEAN, files \in FileLists :
       last = [op |-> "directory", findOk |-> findOk, files |-> files]

DetectLanguage ==
  /\ last.op = "directory"
  /\ last' = [op |-> "detectLanguage", findOk |-> last.findOk, files |-> last.files,
              result |-> [threw |-> FALSE,
                          language |-> detectLanguage(last.findOk, last.files)]]
  /\ UNCHANGED <<registryVars, processVars, moduleVars, mainVars>>

NextLanguage == DetectLanguage

SpecLanguage == InitLanguage /\ [][NextLanguage]_vars

----------------------------------------------------------------------------
(* Properties *)

\* the text of s after its first n characters
Drop(s, n) == SubSeq(s, n + 1, Len(s))

\* C1: for every registered repository r and every relative path p,
\* resolveToAbsolutePath("/" + r.id + "/" + p) returns exactly r.path + "/" + p.
C1_ResolveRegistered ==
  last.op = "resolveToAbsolutePath" =>
    \A id \in DOMAIN repositories :
      StartsWith(last.path, Slash \o id \o Slash) =>
        /\ ~last.result.threw
        /\ last.result.value =
             repositories[id].path \o Slash \o Drop(last.path, Len(id) + 2)

\* a non-empty relative path resolved in a repository that is not the default one
C1_Witness ==
  /\ last.op = "resolveToAbsolutePath"
  /\ \E id \in DOMAIN repositories :
       /\ StartsWith(last.path, Slash \o id \o Slash)
       /\ Drop(last.path, Len(id) + 2) # << >>
       /\ _defaultRepoId # Some(id)
       /\ ~last.result.threw

ToolNames == {"read-file", "create-file", "update-file", "search-files", "ensure-dir-exists"}

\* the first segment of an absolute address: the text between the leading "/"
\* and the next "/", when there is a next "/"
HasFirstSegment(path, id) ==
  /\ StartsWith(path, Slash \o id \o Slash)
  /\ \A k \in 1..Len(id) : id[k] # "/"

\* the segments an address of the model can start with
Segments == {s \in Addresses : \A k \in 1..Len(s) : s[k] # "/"}

\* C2: no tool handler resolves an address or performs filesystem I/O on it
\* unless validatePathForTool accepts that address: every address a tool acts
\* on is absolute and names a registered repository.
C2_ToolsActOnValidatedOnly ==
  (last.op \in ToolNames /\ (last.result.resolved # Undefined \/ last.result.io # << >>)) =>
    /\ validatePathForTool(last.path, last.op).isValid
    /\ StartsWith(last.path, Slash)
    /\ \E id \in DOMAIN repositories : HasFirstSegment(last.path, id)

\* C3: validatePathForTool returns isValid = false for every address that does
\* not begin with "/" (prefixed, relative and empty alike), whatever the
\* registry contains and even when the address names a registered repository.
C3_NonAbsoluteRejected ==
  (last.op = "validatePathForTool" /\ ~StartsWith(last.path, Slash)) =>
    last.result.isValid = FALSE

\* a prefixed address that names a registered repository is rejected
C3_Witness ==
  /\ last.op = "validatePathForTool"
  /\ \E id \in DOMAIN repositories :
       /\ StartsWith(last.path, id \o SchemeSep)
       /\ Len(last.path) > Len(id) + 3
  /\ last.result.isValid = FALSE

\* C4: for every absolute address "/" + id + "/" + rest whose id is not a
\* registered repository id, validatePathForTool returns isValid = false with
\* the unknown-repository message naming that id; for a registered id it
\* returns isValid = true.
C4_RegistryDecidesAbsolute ==
  last.op = "validatePathForTool" =>
    \A id \in Segments \ {<< >>} :
      HasFirstSegment(last.path, id) =>
        IF id \in DOMAIN repositories
        THEN last.result.isValid = TRUE
        ELSE /\ last.result.isValid = FALSE
             /\ last.result.errorMessage =
                  Some(<<"INVALID REPOSITORY ID: '">> \o id
                         \o <<"' not found in registered repositories.">>)

\* an unregistered id is rejected while another repository is registered
C4_Witness ==
  /\ last.op = "validatePathForTool"
  /\ DOMAIN repositories # {}
  /\ \E id \in Segments \ {<< >>} :
       /\ HasFirstSegment(last.path, id)
       /\ id \notin DOMAIN repositories
  /\ last.result.isValid = FALSE

\* "://" occurs in s at position i
SepAt(s, i) == i + 2 <= Len(s) /\ s[i] = ":" /\ s[i + 1] = "/" /\ s[i + 2] = "/"

HasSep(s) == \E i \in 1..Len(s) : SepAt(s, i)

\* position of the first "://" of s
FirstSep(s) == CHOOSE i \in 1..Len(s) : SepAt(s, i) /\ \A j \in 1..(i - 1) : ~SepAt(s, j)

\* the text of s up to its first "://", all of s when it has none
UpToSep(s) == IF HasSep(s) THEN SubSeq(s, 1, FirstSep(s) - 1) ELSE s

\* the message carries an example address after "Convert your path to: "
HasExample(message) ==
  \E i \in 1..(Len(message) - 1) :
    message[i] = ConvertYourPathTo[1] /\ message[i + 1] = "/"

\* the example built from a non-absolute address
ExpectedExample(path) ==
  IF HasSep(path)
  THEN Slash \o UpToSep(path) \o Slash \o UpToSep(Drop(path, FirstSep(path) + 2))
  ELSE Slash \o (IF _defaultRepoId = Undefined THEN UnknownId ELSE _defaultRepoId[1])
             \o Slash \o path

\* C5 as stated: every validation failure is a returned value {isValid: false,
\* errorMessage}, never a thrown error, and the errorMessage of every failure
\* (non-absolute, malformed absolute, unknown repository) includes a corrected
\* example address built from the supplied address.
C5_EveryFailureHasExample ==
  last.op = "validatePathForTool" =>
    /\ ~last.result.threw
    /\ last.result.isValid = FALSE =>
         /\ last.result.errorMessage # Undefined
         /\ HasExample(last.result.errorMessage[1])

\* C5 as amended: every validation failure is a returned value, never a thrown
\* error; the message of a failure on a non-absolute address ends with the
\* example built from that address, and the message of a failure on an
\* absolute address (malformed, or unknown repository) carries no example.
C5_FailureIsReturnedValue ==
  last.op = "validatePathForTool" =>
    /\ ~last.result.threw
    /\ last.result.isValid = FALSE =>
         /\ last.result.errorMessage # Undefined
         /\ IF StartsWith(last.path, Slash)
            THEN ~HasExample(last.result.errorMessage[1])
            ELSE last.result.errorMessage[1] =
                   AbsolutePathRequired \o ConvertYourPathTo \o ExpectedExample(last.path)

\* a prefixed address with a second "://" is rejected with its example
C5_Witness ==
  /\ last.op = "validatePathForTool"
  /\ HasSep(last.path) /\ ~StartsWith(last.path, Slash)
  /\ HasSep(Drop(last.path, FirstSep(last.path) + 2))
  /\ last.result.isValid = FALSE
  /\ HasExample(last.result.errorMessage[1])

\* C6: parsing inverts reconstruction: for every reference {repoId,
\* relativePath}, parsePathFormat("/" + repoId + "/" + relativePath) returns
\* the same repoId and the same relativePath.
C6_ParseInvertsFormat ==
  last.op = "formatPathForTool(object)" =>
    LET parsed == parsePathFormat(last.result.value)
    IN  /\ last.result.value = Slash \o last.ref.repoId \o Slash \o last.ref.relativePath
        /\ ~parsed.threw
        /\ parsed.repoId = last.ref.repoId
        /\ parsed.relativePath = last.ref.relativePath

\* a reference whose relative path itself contains "/" was reconstructed
C6_Witness ==
  /\ last.op = "formatPathForTool(object)"
  /\ last.ref.repoId # << >>
  /\ \E k \in 1..Len(last.ref.relativePath) : last.ref.relativePath[k] = "/"
  /\ Len(last.ref.relativePath) >= 2

\* C7: a prefixed address is split on the first occurrence of "://" only:
\* parsePathFormat(id + "://" + rest) returns repoId = id and relativePath =
\* rest in full, also when rest itself contains "://"; it fails when either
\* side is empty.
C7_SplitOnFirstSepOnly ==
  (last.op = "parsePathFormat" /\ ~StartsWith(last.path, Slash) /\ HasSep(last.path)) =>
    LET id == UpToSep(last.path)
        rest == Drop(last.path, FirstSep(last.path) + 2)
    IN  IF id = << >> \/ rest = << >>
        THEN last.result.threw
        ELSE /\ ~last.result.threw
             /\ last.result.repoId = id
             /\ last.result.relativePath = rest

\* C8 as stated: every address string is classified as exactly one of the
\* three shapes: absolute if it begins with "/" (even if it also contains
\* "://"), otherwise prefixed if it contains "://", otherwise relative.
C8_ThreeShapes ==
  last.op = "getPathFormatType" =>
    last.result.formatType =
                  IF Len(last.path) > 0 /\ last.path[1] = "/" THEN ABSOLUTE_PATH
                  ELSE IF HasSep(last.path) THEN REPOSITORY_PREFIXED
                  ELSE RELATIVE_PATH

\* C8 as amended: every non-empty address string is classified by that rule;
\* the empty string is none of the three shapes (it is classified unknown).
C8_ThreeShapesOfNonEmpty ==
  last.op = "getPathFormatType" =>
    last.result.formatType =
                  IF Len(last.path) = 0 THEN UNKNOWN
                  ELSE IF last.path[1] = "/" THEN ABSOLUTE_PATH
                  ELSE IF HasSep(last.path) THEN REPOSITORY_PREFIXED
                  ELSE RELATIVE_PATH

\* an address that begins with "/" and also contains "://" is absolute
C8_Witness ==
  /\ last.op = "getPathFormatType"
  /\ StartsWith(last.path, Slash) /\ HasSep(last.path)
  /\ last.result.formatType = ABSOLUTE_PATH

\* an absolute address with fewer than two segments after the leading slash
BareAbsolute(path) ==
  /\ StartsWith(path, Slash)
  /\ \A k \in 2..Len(path) : path[k] # "/"

\* C9: an absolute address with fewer than two segments after the leading
\* slash (a bare "/repoId") is rejected: parsePathFormat fails with a format
\* error and validatePathForTool returns isValid = false, whether or not
\* repoId is registered.
C9_BareRepoRejected ==
  /\ (last.op = "parsePathFormat" /\ BareAbsolute(last.path)) =>
       /\ last.result.threw
       /\ last.result.error = <<"Invalid absolute path format: ">> \o last.path
  /\ (last.op = "validatePathForTool" /\ BareAbsolute(last.path)) =>
       last.result.isValid = FALSE

\* the bare address of a registered repository fails to parse
C9_Witness ==
  /\ last.op = "parsePathFormat"
  /\ \E id \in DOMAIN repositories : last.path = Slash \o id
  /\ last.result.threw

\* C10: resolveToAbsolutePath fails with a thrown error, and returns no path,
\* for every address whose parsed repoId is not the id of a registered
\* repository (including an empty repoId such as in "//x", and a relative
\* address when no default repository exists).
C10_UnknownRepoThrows ==
  last.op = "resolveToAbsolutePath" =>
    LET parsed == parsePathFormat(last.path)
    IN  (~parsed.threw /\ parsed.repoId \notin DOMAIN repositories) => last.result.threw

C12_InitializationBarrier ==
  /\ [][(tools = {} /\ tools' # {}) =>
          /\ scanQueue = {} /\ scanning = Undefined
          /\ DOMAIN repositories \subseteq DOMAIN modulesByRepo]_vars
  /\ [](~Idle => last.op \in tools /\ pc = "serving")
  /\ [](pc = "autoDetectAllModules" => tools = {})

\* a read-file call is served after two repositories have been scanned
C12_Witness ==
  /\ last.op = "read-file"
  /\ Cardinality(DOMAIN repositories) >= 2
  /\ DOMAIN repositories \subseteq DOMAIN modulesByRepo

\* C13: once main() serves calls, serving a tool call leaves the repository
\* registry, the default repository and the module registry as they were
C13_RegistriesReadOnly ==
  [][(pc = "serving" /\ Idle /\ ~Idle') =>
       /\ repositories' = repositories
       /\ _defaultRepoId' = _defaultRepoId
       /\ modulesByRepo' = modulesByRepo]_vars

\* the REPO_PATH_<ID> entries of an environment that name an existing path
ValidEntries(env) ==
  {i \in 1..Len(env) : env[i].key.prefix = "REPO_PATH_" /\ env[i].value \in ExistingPaths}

\* whether the legacy variable is present and names an existing path
LegacyOverride(env) ==
  \E i \in 1..Len(env) :
    env[i].key.prefix = "SWIFT_CODER_REPO_PATH" /\ env[i].value \in ExistingPaths

MinOf(S) == CHOOSE i \in S : \A j \in S : i <= j

\* C14: after startup the default is the legacy repository when the legacy
\* variable names an existing path, otherwise the lower-cased ID of the first
\* REPO_PATH_<ID> entry that names an existing path, otherwise none; and no
\* later registration changes a default that is set
C14_DefaultAfterStartup ==
  /\ [](last.op = "new RepoManager" =>
          _defaultRepoId =
            IF LegacyOverride(last.env) THEN Some(SwiftCoderId)
            ELSE IF ValidEntries(last.env) # {}
            THEN Some(toLowerCase(last.env[MinOf(ValidEntries(last.env))].key.suffix))
            ELSE Undefined)
  /\ [][_defaultRepoId # Undefined => _defaultRepoId' = _defaultRepoId]_vars

\* the server was started with two valid REPO_PATH_<ID> entries and the legacy
\* variable set, in that order, and the legacy repository is the default
C14_Witness ==
  /\ last.op = "new RepoManager"
  /\ Cardinality(ValidEntries(last.env)) = 2
  /\ LegacyOverride(last.env)
  /\ last.env[1].key.prefix = "REPO_PATH_"
  /\ _defaultRepoId = Some(SwiftCoderId)
  /\ Cardinality(DOMAIN repositories) = 3

\* C15: every path stored in the registry is absolute, and a relative path
\* given to addRepository is stored as "/" followed by it
C15_StoredPathsAbsolute ==
  /\ \A id \in DOMAIN repositories : StartsWith(repositories[id].path, Slash)
  /\ (last.op = "addRepository" /\ ~StartsWith(last.config.path, Slash)) =>
       repositories[last.config.id].path = Slash \o last.config.path

\* addRepository was given the relative path "r" and "/r" is stored
C15_Witness ==
  /\ last.op = "addRepository"
  /\ last.config.path = <<"r">>
  /\ repositories[last.config.id].path = <<"/", "r">>

\* C16: the root path of every registered repository is a directory that
\* exists (the directories on disk do not change after startup)
C16_RegisteredPathsExist ==
  \A id \in DOMAIN repositories : repositories[id].path \in ExistingPaths

\* C17: addRepository stores the given configuration under its id in place
\* of what was stored there, leaves every other entry alone, makes the id
\* the default when none was set and leaves a default that was set unchanged
C17_LastRegistrationWins ==
  last.op = "addRepository" =>
    /\ DOMAIN repositories = DOMAIN last.before.repositories \cup {last.config.id}
    /\ repositories[last.config.id].id = last.config.id
    /\ repositories[last.config.id].path =
         IF StartsWith(last.config.path, Slash) THEN last.config.path
         ELSE Slash \o last.config.path
    /\ \A id \in DOMAIN last.before.repositories \ {last.config.id} :
         repositories[id] = last.before.repositories[id]
    /\ last.before._defaultRepoId = Undefined => _defaultRepoId = Some(last.config.id)
    /\ last.before._defaultRepoId # Undefined => _defaultRepoId = last.before._defaultRepoId

\* a registered id was registered again with another path, while another
\* repository is the default
C17_Witness ==
  /\ last.op = "addRepository"
  /\ last.config.id \in DOMAIN last.before.repositories
  /\ last.before.repositories[last.config.id].path # repositories[last.config.id].path
  /\ last.before._defaultRepoId # Undefined
  /\ last.before._defaultRepoId # Some(last.config.id)

\* the positions of the modules of a list that have the empty path
CatchAlls(modules) == {i \in 1..Len(modules) : modules[i].path = << >>}

\* C18: the list detection gives for a repository has a module with path ""
\* exactly when the three passes found nothing; it is then the only module
\* and its type is "unknown"
C18_CatchAllOnlyWhenEmpty ==
  last.op = "autoDetectAllModules" =>
    LET modules == lastScan[1].modules
    IN  /\ CatchAlls(modules) # {} <=> last.result.passes = << >>
        /\ CatchAlls(modules) # {} => Len(modules) = 1 /\ modules[1].type = "unknown"
        /\ Cardinality(CatchAlls(modules)) <= 1

\* a repository with two top-level items, one of them a directory, in which
\* no pass finds a module: the list is the catch-all alone
C18_Witness ==
  /\ last.op = "autoDetectAllModules"
  /\ Len(last.layout.items) = 2
  /\ \E i \in 1..2 : last.layout.items[i].stat = "directory"
  /\ last.result.passes = << >>
  /\ Len(lastScan[1].modules) = 1
  /\ lastScan[1].modules[1].path = << >>

\* C20: the list one detection gives for a repository has no two modules
\* with the same id, and the total autoDetectAllModules reports is the number
\* of modules stored for the repository
C20_ModuleIdsUnique ==
  last.op = "autoDetectAllModules" =>
    LET modules == lastScan[1].modules
    IN  /\ \A i, j \in 1..Len(modules) : i # j => modules[i].id # modules[j].id
        /\ last.result.totalModules = Cardinality(DOMAIN modulesByRepo[DetectRepo.id])

\* C19: when a detection of a repository has finished, the modules stored for
\* that repository are those of its list and no other
C19_RescanReplaces ==
  lastScan # Undefined =>
    LET repoId == lastScan[1].repoId
        modules == lastScan[1].modules
    IN  DOMAIN modulesByRepo[repoId] = {modules[i].id : i \in 1..Len(modules)}

\* C28: when validatePathForTool accepts an address, resolveToAbsolutePath on
\* the same address, with the same registry, does not throw and returns the
\* root path of the repository the first segment names, then "/", then the
\* text of the address after "/" + id + "/"
C28_ValidationAndResolutionAgree ==
  (last.op = "validatePathForTool" /\ last.result.isValid) =>
    LET resolved == resolveToAbsolutePath(last.path)
    IN  /\ ~resolved.threw
        /\ \E id \in DOMAIN repositories :
             /\ HasFirstSegment(last.path, id)
             /\ resolved.value =
                  repositories[id].path \o Slash \o Drop(last.path, Len(id) + 2)

\* an accepted address with two segments after the id, in a repository that
\* is not the default one
C28_Witness ==
  /\ last.op = "validatePathForTool"
  /\ last.result.isValid
  /\ \E id \in DOMAIN repositories :
       /\ HasFirstSegment(last.path, id)
       /\ _defaultRepoId # Some(id)
       /\ Len(Split(Drop(last.path, Len(id) + 2), Slash)) = 2
       /\ ~resolveToAbsolutePath(last.path).threw

\* C29: whenever a repository is registered, the default repository id is set
\* and is the id of a registered repository, and getRepository() without an
\* id returns that repository
C29_DefaultIsRegistered ==
  DOMAIN repositories # {} =>
    /\ Truthy(_defaultRepoId)
    /\ _defaultRepoId[1] \in DOMAIN repositories
    /\ getRepository(<< >>) = Some(repositories[_defaultRepoId[1]])

\* the startup scan registered nothing and a later addRepository registered
\* the first repository
C29_Witness ==
  /\ last.op = "addRepository"
  /\ DOMAIN last.before.repositories = {}
  /\ last.before._defaultRepoId = Undefined
  /\ DOMAIN repositories = {last.config.id}
  /\ getRepository(<< >>) # Undefined

\* C27: autoDetectAllModules starts the detection of a repository only while
\* no detection is in progress, and when every repository its loop took
\* before has its modules in the module registry
C27_ScansSequential ==
  [][(scanning' # Undefined /\ scanning' # scanning) =>
       /\ scanning = Undefined
       /\ (DOMAIN repositories \ scanQueue) \subseteq DOMAIN modulesByRepo]_vars

\* at startup the detection of a second repository is in progress and the
\* modules of the first are registered
C27_Witness ==
  /\ pc = "autoDetectAllModules"
  /\ scanning # Undefined
  /\ scanning[1] \notin DOMAIN modulesByRepo
  /\ DOMAIN modulesByRepo # {}
  /\ DOMAIN modulesByRepo = DOMAIN repositories \ (scanQueue \cup {scanning[1]})

\* C22: getModuleByName returns a module whose id is the query when some
\* module of some repository has that id (so "api" finds api, never
\* api-gateway); otherwise a module whose name is the query when some module
\* has that name; a module matched by substring only, or nothing, is returned
\* only when no module has the query as its id or name
C22_ExactBeforeFuzzy ==
  last.op = "getModuleByName" =>
    LET moduleName == last.path
        found == last.result.found
        all == allModules(modulesByRepo)
        idMatch == \E m \in all : m.id = moduleName
        nameMatch == \E m \in all : m.name = moduleName
    IN  /\ idMatch => found # Undefined /\ found[1].id = moduleName
        /\ (~idMatch /\ nameMatch) => found # Undefined /\ found[1].name = moduleName
        /\ found # Undefined => found[1] \in all
        /\ (found = Undefined \/ (found[1].id # moduleName /\ found[1].name # moduleName))
             => ~idMatch /\ ~nameMatch
        /\ (found # Undefined /\ ~idMatch /\ ~nameMatch) =>
             \/ Includes(lowerCase(found[1].name), lowerCase(moduleName))
             \/ Includes(lowerCase(found[1].id), lowerCase(moduleName))

\* api and api-gateway are registered for the same repository, a module named
\* "api" with another id for the other one, and "api" is asked for
C22_Witness ==
  /\ last.op = "getModuleByName"
  /\ last.path = Str_api
  /\ \E r \in DOMAIN modulesByRepo :
       /\ {Str_api, Str_apigateway} \subseteq DOMAIN modulesByRepo[r]
       /\ \E o \in DOMAIN modulesByRepo \ {r} :
            <<"x">> \in DOMAIN modulesByRepo[o] /\ modulesByRepo[o][<<"x">>].name = Str_api
  /\ last.result.found # Undefined
  /\ last.result.found[1].id = Str_api

\* the number of listed files whose extension the table maps to a language
classified(files, lang) ==
  Cardinality({i \in 1..Len(files) : files[i] \in DOMAIN langMap /\ langMap[files[i]] = lang})

\* the languages of the table
tableLanguages == {langMap[e] : e \in DOMAIN langMap}

\* C25: when `find` lists the files, detectLanguage returns "unknown" exactly
\* when no listed file has an extension of the table, and otherwise a
\* language of the table that no other language of the table exceeds in
\* aggregate file count, whatever files with other extensions are listed
C25_HighestClassifiedCount ==
  (last.op = "detectLanguage" /\ last.findOk) =>
    LET language == last.result.language
        files == last.files
    IN  IF \A l \in tableLanguages : classified(files, l) = 0
        THEN language = "unknown"
        ELSE /\ language \in tableLanguages
             /\ \A l \in tableLanguages : classified(files, l) <= classified(files, language)

\* C21: when the only top-level entry of a repository is a directory with a
\* package.json that declares react, the list detection gives is one module
\* and its type is "web", whatever the name of the directory (hidden
\* directories, which detection skips, left aside)
C21_OneWebModule ==
  (/\ last.op = "autoDetectAllModules"
   /\ last.layout.readdir
   /\ Len(last.layout.items) = 1
   /\ last.layout.items[1].stat = "directory"
   /\ ~StartsWith(last.layout.items[1].name, <<".">>)
   /\ "package.json" \in last.layout.items[1].has
   /\ last.layout.items[1].packageJson # Undefined
   /\ "react" \in last.layout.items[1].packageJson[1].dependencies)
    => /\ Len(lastScan[1].modules) = 1
       /\ lastScan[1].modules[1].type = "web"

\* the languages of the modules of a list that the manifest pass gave for the
\* directory of that name (the other passes give the types "static-site" and
\* "utility", the catch-all has the empty path)
ManifestLanguages(modules, name) ==
  LET hits == SelectSeq(modules, LAMBDA m : /\ m.id = name
                                            /\ m.path # << >>
                                            /\ m.type \notin {"static-site", "utility"})
  IN  [i \in 1..Len(hits) |-> hits[i].language]

\* the top-level directories the manifest pass looks into
ManifestCandidates(layout) ==
  {i \in 1..Len(layout.items) :
     /\ layout.readdir
     /\ layout.items[i].stat = "directory"
     /\ ~StartsWith(layout.items[i].name, <<".">>)}

\* C23 as stated: every top-level directory that contains a package.json
\* yields one manifest module, with language "typescript"
C23_PackageJsonAlwaysTypescript ==
  last.op = "autoDetectAllModules" =>
    \A i \in ManifestCandidates(last.layout) :
      "package.json" \in last.layout.items[i].has =>
        ManifestLanguages(last.result.passes, last.layout.items[i].name) = <<"typescript">>

\* C23: the first manifest kind that matches a directory, in the order
\* package.json, Python manifests, go.mod, Cargo.toml, decides its one
\* manifest module, where a package.json matches only if it can be read and
\* parsed; a directory without a matching manifest, a hidden one and a file
\* yield no manifest module
C23_FirstMatchingManifestWins ==
  last.op = "autoDetectAllModules" =>
    \A i \in 1..Len(last.layout.items) :
      LET item == last.layout.items[i]
          expected ==
            IF i \notin ManifestCandidates(last.layout) THEN << >>
            ELSE IF "package.json" \in item.has /\ item.packageJson # Undefined
            THEN <<"typescript">>
            ELSE IF item.has \cap {"requirements.txt", "setup.py", "pyproject.toml"} # {}
            THEN <<"python">>
            ELSE IF "go.mod" \in item.has THEN <<"go">>
            ELSE IF "Cargo.toml" \in item.has THEN <<"rust">>
            ELSE << >>
      IN  ManifestLanguages(last.result.passes, item.name) = expected

\* a repository with a directory that holds a parsable package.json, a go.mod
\* and a Cargo.toml, classified as typescript, and a directory that holds an
\* unparsable package.json and a requirements.txt, classified as python
C23_Witness ==
  /\ last.op = "autoDetectAllModules"
  /\ last.layout.readdir
  /\ \E i, j \in ManifestCandidates(last.layout) :
       /\ {"package.json", "go.mod", "Cargo.toml"} \subseteq last.layout.items[i].has
       /\ last.layout.items[i].packageJson # Undefined
       /\ ManifestLanguages(last.result.passes, last.layout.items[i].name) = <<"typescript">>
       /\ {"package.json", "requirements.txt"} \subseteq last.layout.items[j].has
       /\ last.layout.items[j].packageJson = Undefined
       /\ ManifestLanguages(last.result.passes, last.layout.items[j].name) = <<"python">>

\* the names the static-site pass looks for
StaticSiteNames == {Str_docs, Str_website, Str_ghpages, Str_static}

\* the languages of the static-site modules of a list for a name
StaticSiteLanguages(modules, name) ==
  LET hits == SelectSeq(modules, LAMBDA m : m.id = name /\ m.type = "static-site")
  IN  [i \in 1..Len(hits) |-> hits[i].language]

\* the repository of the scenario: docs with an index.html only and scripts
\* with .py files only, and nothing else
DocsAndScripts(layout) ==
  /\ Len(layout.items) = 2
  /\ \E i, j \in 1..2 :
       /\ layout.items[i].name = Str_docs
       /\ layout.items[i].stat = "directory" /\ layout.items[i].readdir
       /\ layout.items[i].has = {"index.html"}
       /\ layout.items[j].name = Str_scripts
       /\ layout.items[j].stat = "directory" /\ layout.items[j].readdir
       /\ layout.items[j].has = {"run.py"}
       /\ \A k \in 1..Len(layout.items[j].files) : layout.items[j].files[k] = ".py"

\* C24: a list has a static-site module for a name exactly when the name is
\* docs, website, gh-pages or static and names a readable directory that
\* holds index.html or a .md file, with language "markdown" if it holds a
\* .md file and "html" otherwise; and the repository with docs (index.html)
\* and scripts (.py files) gives the two modules of the scenario and no other
C24_StaticSitePass ==
  last.op = "autoDetectAllModules" =>
    /\ \A i \in 1..Len(last.layout.items) :
         LET item == last.layout.items[i]
             hasMarkdown == item.has \cap MarkdownFiles # {}
         IN  StaticSiteLanguages(last.result.passes, item.name) =
               IF /\ item.name \in StaticSiteNames
                  /\ item.stat = "directory" /\ item.readdir
                  /\ ("index.html" \in item.has \/ hasMarkdown)
               THEN <<IF hasMarkdown THEN "markdown" ELSE "html">>
               ELSE << >>
    /\ \A k \in 1..Len(last.result.passes) :
         last.result.passes[k].type = "static-site" =>
           \E i \in 1..Len(last.layout.items) :
             last.layout.items[i].name = last.result.passes[k].id
    /\ DocsAndScripts(last.layout) =>
         [k \in 1..Len(lastScan[1].modules) |->
            [path |-> lastScan[1].modules[k].path,
             type |-> lastScan[1].modules[k].type,
             language |-> lastScan[1].modules[k].language]]
           = <<[path |-> Str_docs, type |-> "static-site", language |-> "html"],
               [path |-> Str_scripts, type |-> "utility", language |-> "python"]>>

\* the repository of the scenario was scanned and two modules are stored
C24_Witness ==
  /\ last.op = "autoDetectAllModules"
  /\ DocsAndScripts(last.layout)
  /\ last.layout.readdir
  /\ DOMAIN modulesByRepo[DetectRepo.id] = {Str_docs, Str_scripts}
  /\ modulesByRepo[DetectRepo.id][Str_docs].language = "html"
  /\ modulesByRepo[DetectRepo.id][Str_scripts].language = "python"

\* the names the utility pass looks for
UtilityNames == {Str_scripts, Str_examples, Str_tools, Str_config, Str_utils}

\* a top-level entry that cannot be stat-ed, or a directory that cannot be read
Inaccessible(item) ==
  item.stat = "throws" \/ (item.stat = "directory" /\ ~item.readdir)

\* the repository without its i-th top-level entry
WithoutItem(layout, i) ==
  [layout EXCEPT !.items =
     SubSeq(layout.items, 1, i - 1) \o SubSeq(layout.items, i + 1, Len(layout.items))]

\* what the three passes of detectModulesInRepository give, in their order
detectionPasses(layout) ==
  detectConventionalModules(layout)
    \o detectStaticSiteModules(layout)
    \o detectUtilityModules(layout)

\* the part of a claim about the other entries: the passes give for them what
\* they give for the repository without the i-th entry
OthersUnaffected(i) ==
  SelectSeq(last.result.passes, LAMBDA m : m.id # last.layout.items[i].name)
    = detectionPasses(WithoutItem(last.layout, i))

====
